---- MODULE Spec2Model ----
(***************************************************************************)
(* Model of the AI Trading Arena paper-trading ledger                      *)
(* (core/exchange_executor.py, class PaperExchange).                       *)
(*                                                                         *)
(* Monetary quantities are Python floats in the source.  They are modelled *)
(* as exact rationals <<numerator, denominator>> in lowest terms with a    *)
(* positive denominator, so that every product, quotient and comparison    *)
(* the code performs is carried out as written.                            *)
(***************************************************************************)
EXTENDS Integers, Sequences, FiniteSets, TLC

(***************************************************************************)
(* Bounds of the model.                                                    *)
(***************************************************************************)
MaxOrders == 3

(***************************************************************************)
(* Rational arithmetic (the float operators of the source).                *)
(***************************************************************************)
Abs(x) == IF x < 0 THEN -x ELSE x

RECURSIVE GCD(_, _)
GCD(a, b) == IF b = 0 THEN a ELSE GCD(b, a % b)

Rat(n, d) ==
    LET s == IF d < 0 THEN -1 ELSE 1
        g == GCD(Abs(n), Abs(d))
    IN  << (s * n) \div g, (s * d) \div g >>

R(n) == << n, 1 >>

RAdd(a, b) == Rat(a[1] * b[2] + b[1] * a[2], a[2] * b[2])

RSub(a, b) == Rat(a[1] * b[2] - b[1] * a[2], a[2] * b[2])

RMul(a, b) == Rat(a[1] * b[1], a[2] * b[2])

RDiv(a, b) == Rat(a[1] * b[2], a[2] * b[1])

RNeg(a) == << -a[1], a[2] >>

RLt(a, b) == a[1] * b[2] < b[1] * a[2]

RLe(a, b) == a[1] * b[2] <= b[1] * a[2]

RGt(a, b) == RLt(b, a)

(***************************************************************************)
(* Configuration (utils/config.py) and input domains.                      *)
(***************************************************************************)
None == << >>

NoException == "no exception"

Symbols == {"BTC/USDT", "ETH/USDT"}

\* Order sizes and reference prices the callers use, per symbol.
Sizes == [ s \in Symbols |-> IF s = "BTC/USDT" THEN {R(1), R(4)} ELSE {R(4)} ]

Prices == [ s \in Symbols |-> IF s = "BTC/USDT" THEN {R(8), R(10)} ELSE {R(10)} ]

\* The calls a caller makes: every well-formed order over the domains above
\* (1 @ 8 is below the minimum order value, 1 @ 10 is exactly the minimum)
\* and one malformed order per parameter check of _validate_order.
Requests ==
    UNION { {s} \X {"BUY", "SELL"} \X Sizes[s] \X Prices[s] : s \in Symbols }
    \cup { << "BTC/USDT", "INVALID", R(1), R(10) >>,
           << "BTC/USDT", "BUY", R(0), R(10) >>,
           << "ETH/USDT", "SELL", R(0 - 1), R(10) >>,
           << "ETH/USDT", "BUY", R(4), R(0) >> }

PxValues == {R(8), R(10)}

CommissionRates == {R(0), Rat(1, 10), R(2)}

Slippages == {R(0), Rat(1, 10)}

initial_capital == R(100)

min_order_size_usd == R(10)

max_daily_loss_rate == Rat(5, 100)

max_daily_loss == RMul(initial_capital, max_daily_loss_rate)

VARIABLES
    commission_rate,        \* self.commission_rate
    slippage,               \* self.slippage
    cash_balance,           \* self.cash_balance
    positions,              \* self.positions: symbol -> [size, entry_price]
    orders,                 \* self.orders
    trades,                 \* self.trades
    daily_pnl,              \* self.daily_pnl
    circuit_breaker_active, \* self.circuit_breaker_active
    call,                   \* the method last called on the ledger
    raised                  \* the exception that call raised to its caller, if any

\* The competition: ArenaManager, its LLMManager and the per-model state.
VARIABLES
    pc,                     \* where run_competition / _run_trading_round stands
    running,                \* ArenaManager.running
    shutdown_requested,     \* ArenaManager.shutdown_requested
    current_round,          \* ArenaManager.current_round
    round_results,          \* ArenaManager.round_results
    max_rounds,             \* argument of run_competition (0: None)
    session_end,            \* "none", or the deadline seen from now: "future" / "past"
    runs_started,           \* calls of run_competition so far
    cleanup_runs,           \* _cleanup calls made by the current run
    exported,               \* export_results wrote the result files
    clients_open,           \* the model adapters held by LLMManager are open
    data_fetcher_open,      \* the exchange facade held by BinanceDataFetcher is open
    model_order,            \* key order of LLMManager.models (enabled models by priority)
    symbols,                \* ArenaManager.symbols
    models,                 \* LLMManager.models: provider -> ModelState
    sym_idx,                \* position of the symbol loop of the round
    round_prices,           \* current_prices of the round (symbol -> price)
    tasks,                  \* provider -> state of its decision task in gather
    decisions,              \* provider -> result of its decision task
    sleep_left              \* ticks left of asyncio.sleep(decision_interval)

\* Market data: BinanceDataFetcher with its RateLimiter and its DataCache.
VARIABLES
    clock,                  \* time.time(), in seconds
    rate_limiter,           \* RateLimiter: max_calls, time_window, calls
    acquired,               \* every timestamp acquire has recorded in calls, in order
    acquiring,              \* caller -> where its acquire() stands (asleep until wake)
    cache,                  \* DataCache: ttl, cache (key -> << timestamp, data >>)
    fetch                   \* the last fetch_ohlcv / fetch_multi_timeframe call and
                            \* what its caller received

\* A model adapter: one get_trading_decision call of a BaseLLMClient.
VARIABLES
    request,                \* the call: its adapter, its attempt, what it returned
    provider_calls,         \* provider -> _call_api calls made for it under the
                            \* current gather of the broker
    responses,              \* provider -> the parsed response its task validated
    collects                \* the get_all_decisions calls running: the state of
                            \* each one's tasks, and whether it has returned

fetcherVars == << clock, rate_limiter, acquired, acquiring, cache, fetch >>

adapterVars == << request, provider_calls, responses, collects >>

arenaVars == << pc, running, shutdown_requested, current_round, round_results,
                max_rounds, session_end, runs_started, cleanup_runs,
                exported, clients_open, data_fetcher_open, model_order, symbols, models,
                sym_idx, round_prices, tasks, decisions, sleep_left >>

vars == << commission_rate, slippage, cash_balance, positions, orders, trades,
           daily_pnl, circuit_breaker_active, call, raised, arenaVars,
           fetcherVars, adapterVars >>

\* RateLimiter.__init__
RateLimiter(max_calls, time_window) ==
    [ max_calls |-> max_calls, time_window |-> time_window, calls |-> << >> ]

\* DataCache.__init__
DataCache(ttl) == [ ttl |-> ttl, cache |-> << >> ]

\* The tasks that call RateLimiter.acquire concurrently.
Callers == 1..3

NoFetch ==
    [ op |-> "none", timeframes |-> << >>, use_cache |-> FALSE, replies |-> << >>,
      inner |-> << >>, raised |-> "none", returned |-> << >>, acquired |-> 0,
      exchange_calls |-> 0 ]

\* BinanceDataFetcher.__init__ under a configuration (requests per minute,
\* cache TTL): nothing fetched yet, nobody inside acquire.
DataFetcherWith(max_requests, cache_ttl) ==
    /\ clock = 0
    /\ rate_limiter = RateLimiter(max_requests, 60)
    /\ acquired = << >>
    /\ acquiring = [ c \in Callers |-> [ pc |-> "idle", wake |-> 0 ] ]
    /\ cache = DataCache(cache_ttl)
    /\ fetch = NoFetch

DataFetcher == DataFetcherWith(600, 60)

NoRequest ==
    [ pc |-> "idle", client |-> "none", max_retries |-> 0, retry_delay |-> 0,
      attempt |-> 0, api_calls |-> 0, rate_limited |-> 0, outcome |-> "none",
      error |-> "none",
      slept |-> << >>, raised |-> "none" ]

\* The parameters of the exception classes' __init__ (utils/errors.py), the
\* first `required` of them without a default.
Parameters(cls) ==
    CASE cls = "DataFetchError" ->
             [ names |-> << "symbol", "timeframe", "reason" >>, required |-> 3 ]
      [] cls = "InvalidDataError" ->
             [ names |-> << "symbol", "reason" >>, required |-> 2 ]
      [] cls = "LLMAPIError" ->
             [ names |-> << "model", "reason", "status_code" >>, required |-> 2 ]
      [] cls = "LLMTimeoutError" ->
             [ names |-> << "model", "timeout_seconds" >>, required |-> 2 ]
      [] cls = "LLMRateLimitError" ->
             [ names |-> << "model", "retry_after" >>, required |-> 1 ]

\* `raise cls(a1, .., an, k1=.., ..)`: what is raised.  Python binds the
\* positional arguments to the first parameters; a keyword that names no
\* parameter or one already bound, or a required parameter left unbound, is
\* a TypeError, raised in place of the exception being built.
New(cls, positional, keywords) ==
    LET names == Parameters(cls).names
        bound == { names[i] : i \in 1..positional }
        known == { names[i] : i \in 1..Len(names) }
    IN  IF \/ positional > Len(names)
           \/ \E k \in keywords : k \notin known \/ k \in bound
           \/ \E i \in 1..Parameters(cls).required :
                  names[i] \notin bound \cup keywords
        THEN "TypeError"
        ELSE cls

\* The ledger object: the fields execute_order and reset_daily_tracking write,
\* and the two __init__ sets once (initial_capital, and max_daily_loss as an
\* amount: initial_capital * the configured rate).
Ledger ==
    [ cash_balance |-> cash_balance,
      positions |-> positions,
      orders |-> orders,
      trades |-> trades,
      daily_pnl |-> daily_pnl,
      circuit_breaker_active |-> circuit_breaker_active,
      initial_capital |-> initial_capital,
      max_daily_loss |-> max_daily_loss ]

\* PaperExchange.__init__(initial_capital = capital).
NewLedger(capital) ==
    [ cash_balance |-> capital,
      positions |-> << >>,
      orders |-> << >>,
      trades |-> << >>,
      daily_pnl |-> R(0),
      circuit_breaker_active |-> FALSE,
      initial_capital |-> capital,
      max_daily_loss |-> RMul(capital, max_daily_loss_rate) ]

(***************************************************************************)
(* Order and trade records (class Order; trade_record in execute_order).   *)
(* Order ids are uuid4 strings in the source: distinct per created order.  *)
(***************************************************************************)
Order(order_id, symbol, action, size, price, status, executed_price) ==
    [ order_id |-> order_id, symbol |-> symbol, action |-> action, size |-> size,
      price |-> price, status |-> status, executed_price |-> executed_price ]

TradeRecord(order_id, symbol, action, size, executed_price, commission, total_cost) ==
    [ order_id |-> order_id, symbol |-> symbol, action |-> action, size |-> size,
      price |-> executed_price, commission |-> commission, total_cost |-> total_cost ]

Position(size, entry_price) == [ size |-> size, entry_price |-> entry_price ]

(***************************************************************************)
(* PaperExchange._validate_order: the exception it raises, or None.        *)
(***************************************************************************)
ValidateOrder(symbol, action, size, price) ==
    IF action \notin {"BUY", "SELL"} THEN "InvalidOrderError"
    ELSE IF RLe(size, R(0)) THEN "InvalidOrderError"
    ELSE IF RLe(price, R(0)) THEN "InvalidOrderError"
    ELSE IF RLt(RMul(size, price), min_order_size_usd) THEN "InvalidOrderError"
    ELSE NoException

(***************************************************************************)
(* PaperExchange._apply_slippage.                                          *)
(***************************************************************************)
ApplySlippageSameSide(price, action, slip) ==
    RMul(price, RAdd(R(1), slip))

ApplySlippage(price, action, slip) ==
    IF action = "BUY"
    THEN RMul(price, RAdd(R(1), slip))
    ELSE RMul(price, RSub(R(1), slip))

(***************************************************************************)
(* PaperExchange._execute_buy.  BuyPosition is the "add to or create       *)
(* position" branch, BuyFill the part after the funds check, ExecuteBuy    *)
(* the whole method: the exception raised inside (if any) and the ledger   *)
(* it leaves.                                                              *)
(***************************************************************************)
BuyPositionPlainMean(pos, symbol, size, price) ==
    IF symbol \in DOMAIN pos
    THEN LET position == pos[symbol]
             total_size == RAdd(position.size, size)
         IN  [ pos EXCEPT ![symbol] =
                 Position(total_size, RDiv(RAdd(position.entry_price, price), R(2))) ]
    ELSE [ s \in DOMAIN pos \cup {symbol} |->
             IF s = symbol THEN Position(size, price) ELSE pos[s] ]

BuyPosition(pos, symbol, size, price) ==
    IF symbol \in DOMAIN pos
    THEN LET position == pos[symbol]
             total_value == RAdd(RMul(position.entry_price, position.size),
                                 RMul(price, size))
             total_size == RAdd(position.size, size)
         IN  [ pos EXCEPT ![symbol] =
                 Position(total_size, RDiv(total_value, total_size)) ]
    ELSE [ s \in DOMAIN pos \cup {symbol} |->
             IF s = symbol THEN Position(size, price) ELSE pos[s] ]

BuyFillNoCommission(L, symbol, size, price, total_cost) ==
    [ L EXCEPT !.cash_balance = RSub(@, RMul(price, size)),
               !.positions = BuyPosition(@, symbol, size, price) ]

BuyFill(L, symbol, size, price, total_cost) ==
    [ L EXCEPT !.cash_balance = RSub(@, total_cost),
               !.positions = BuyPosition(@, symbol, size, price) ]

ExecuteBuy(L, symbol, size, price, total_cost) ==
    IF RGt(total_cost, L.cash_balance)
    THEN [ raised |-> "InsufficientFundsError", ledger |-> L ]
    ELSE [ raised |-> NoException,
           ledger |-> BuyFill(L, symbol, size, price, total_cost) ]

(***************************************************************************)
(* PaperExchange._execute_sell.  SellPnl is the realised PnL of the sale,  *)
(* SellFill the part after the position checks.                            *)
(***************************************************************************)
SellPnl(position, size, price, commission) ==
    RSub(RMul(RSub(price, position.entry_price), size), commission)

SellFillInclusive(L, symbol, size, price, commission) ==
    LET position == L.positions[symbol]
        new_pnl == RAdd(L.daily_pnl, SellPnl(position, size, price, commission))
        breaker == IF RLe(new_pnl, RNeg(L.max_daily_loss))
                   THEN TRUE ELSE L.circuit_breaker_active
        sale_proceeds == RSub(RMul(price, size), commission)
        new_size == RSub(position.size, size)
        pos == IF new_size = R(0)
               THEN [ s \in DOMAIN L.positions \ {symbol} |-> L.positions[s] ]
               ELSE [ L.positions EXCEPT ![symbol].size = new_size ]
    IN  [ L EXCEPT !.daily_pnl = new_pnl,
                   !.circuit_breaker_active = breaker,
                   !.cash_balance = RAdd(L.cash_balance, sale_proceeds),
                   !.positions = pos ]

SellFill(L, symbol, size, price, commission) ==
    LET position == L.positions[symbol]
        new_pnl == RAdd(L.daily_pnl, SellPnl(position, size, price, commission))
        breaker == IF RLt(new_pnl, RNeg(L.max_daily_loss))
                   THEN TRUE ELSE L.circuit_breaker_active
        sale_proceeds == RSub(RMul(price, size), commission)
        new_size == RSub(position.size, size)
        pos == IF new_size = R(0)
               THEN [ s \in DOMAIN L.positions \ {symbol} |-> L.positions[s] ]
               ELSE [ L.positions EXCEPT ![symbol].size = new_size ]
    IN  [ L EXCEPT !.daily_pnl = new_pnl,
                   !.circuit_breaker_active = breaker,
                   !.cash_balance = RAdd(L.cash_balance, sale_proceeds),
                   !.positions = pos ]

ExecuteSellPnlFirst(L, symbol, size, price, commission) ==
    IF symbol \notin DOMAIN L.positions
    THEN [ raised |-> "InvalidOrderError", ledger |-> L ]
    ELSE IF RLt(L.positions[symbol].size, size)
    THEN [ raised |-> "InvalidOrderError",
           ledger |-> [ L EXCEPT !.daily_pnl =
                          RAdd(@, SellPnl(L.positions[symbol], size, price, commission)) ] ]
    ELSE [ raised |-> NoException,
           ledger |-> SellFill(L, symbol, size, price, commission) ]

ExecuteSell(L, symbol, size, price, commission) ==
    IF symbol \notin DOMAIN L.positions
    THEN [ raised |-> "InvalidOrderError", ledger |-> L ]
    ELSE IF RLt(L.positions[symbol].size, size)
    THEN [ raised |-> "InvalidOrderError", ledger |-> L ]
    ELSE [ raised |-> NoException,
           ledger |-> SellFill(L, symbol, size, price, commission) ]

(***************************************************************************)
(* PaperExchange.execute_order: the exception the caller receives (if any) *)
(* and the ledger the call leaves.  PreCheck is the circuit-breaker check  *)
(* followed by the call of _validate_order, both made before the Order is  *)
(* created.                                                                *)
(***************************************************************************)
PreCheckValidateFirst(L, symbol, action, size, price) ==
    IF ValidateOrder(symbol, action, size, price) # NoException
    THEN ValidateOrder(symbol, action, size, price)
    ELSE IF L.circuit_breaker_active THEN "CircuitBreakerTriggeredError"
    ELSE NoException

PreCheck(L, symbol, action, size, price) ==
    IF L.circuit_breaker_active THEN "CircuitBreakerTriggeredError"
    ELSE ValidateOrder(symbol, action, size, price)

ExecuteOrder(L, symbol, action, size, price, comm_rate, slip) ==
    IF PreCheck(L, symbol, action, size, price) # NoException
    THEN [ raised |-> PreCheck(L, symbol, action, size, price), ledger |-> L ]
    ELSE
        LET order_id == Len(L.orders) + 1
            executed_price == ApplySlippage(price, action, slip)
            order_value == RMul(executed_price, size)
            commission == RMul(order_value, comm_rate)
            total_cost == RAdd(order_value, commission)
            r == IF action = "BUY"
                 THEN ExecuteBuy(L, symbol, size, executed_price, total_cost)
                 ELSE ExecuteSell(L, symbol, size, executed_price, commission)
        IN  IF r.raised = NoException
            THEN [ raised |-> NoException,
                   ledger |-> [ r.ledger EXCEPT
                       !.trades = Append(@, TradeRecord(order_id, symbol, action, size,
                                                        executed_price, commission, total_cost)),
                       !.orders = Append(@, Order(order_id, symbol, action, size, price,
                                                  "filled", executed_price)) ] ]
            ELSE [ raised |-> "OrderExecutionError",
                   ledger |-> [ r.ledger EXCEPT
                       !.orders = Append(@, Order(order_id, symbol, action, size, price,
                                                  "failed", None)) ] ]

(***************************************************************************)
(* PaperExchange.reset_daily_tracking.                                     *)
(***************************************************************************)
ResetDailyTrackingPnlOnly(L) ==
    [ L EXCEPT !.daily_pnl = R(0) ]

ResetDailyTracking(L) ==
    [ L EXCEPT !.daily_pnl = R(0), !.circuit_breaker_active = FALSE ]

(***************************************************************************)
(* PaperExchange.get_account_state(current_prices).  current_prices is a   *)
(* map from some symbols to prices; the empty map stands for both None and *)
(* {} (the code tests its truthiness).                                     *)
(***************************************************************************)
RECURSIVE SumValue(_, _, _)
SumValue(pos, current_prices, syms) ==
    IF syms = {} THEN R(0)
    ELSE LET s == CHOOSE x \in syms : TRUE
         IN  RAdd(RMul(current_prices[s], pos[s].size),
                  SumValue(pos, current_prices, syms \ {s}))

PricedSymbols(L, current_prices) ==
    IF DOMAIN current_prices # {}
    THEN { s \in DOMAIN L.positions : s \in DOMAIN current_prices }
    ELSE {}

\* The win-rate loop over self.trades.  buy_history maps a symbol to the
\* (price, size) pairs of its BUYs so far.  The loop assigns the local name
\* total_value, which until then held cash + position value: after the loop it
\* holds the sum(p * s) computed for the last SELL that had a buy history
\* (None here when the loop never assigned it).
RECURSIVE SumPS(_)
SumPS(hist) ==
    IF hist = << >> THEN R(0)
    ELSE RAdd(SumPS(SubSeq(hist, 1, Len(hist) - 1)),
              RMul(hist[Len(hist)][1], hist[Len(hist)][2]))

RECURSIVE SumS(_)
SumS(hist) ==
    IF hist = << >> THEN R(0)
    ELSE RAdd(SumS(SubSeq(hist, 1, Len(hist) - 1)), hist[Len(hist)][2])

WinThreshold(avg_entry) == RMul(avg_entry, Rat(1002, 1000))

RECURSIVE WinLoop(_)
WinLoop(log) ==
    IF log = << >>
    THEN [ buy_history |-> << >>, winning_trades |-> 0, total_trades |-> 0,
           total_value |-> None ]
    ELSE LET st == WinLoop(SubSeq(log, 1, Len(log) - 1))
             trade == log[Len(log)]
             symbol == trade.symbol
         IN  IF trade.action = "BUY"
             THEN [ st EXCEPT !.buy_history =
                      [ s \in DOMAIN st.buy_history \cup {symbol} |->
                          IF s = symbol
                          THEN Append(IF s \in DOMAIN st.buy_history
                                      THEN st.buy_history[s] ELSE << >>,
                                      << trade.price, trade.size >>)
                          ELSE st.buy_history[s] ] ]
             ELSE IF trade.action = "SELL"
             THEN IF symbol \in DOMAIN st.buy_history /\ st.buy_history[symbol] # << >>
                  THEN LET total_value == SumPS(st.buy_history[symbol])
                           total_size == SumS(st.buy_history[symbol])
                           avg_entry == IF RGt(total_size, R(0))
                                        THEN RDiv(total_value, total_size) ELSE R(0)
                       IN  [ st EXCEPT
                               !.total_trades = @ + 1,
                               !.winning_trades =
                                   IF RGt(trade.price, WinThreshold(avg_entry))
                                   THEN @ + 1 ELSE @,
                               !.total_value = total_value ]
                  ELSE [ st EXCEPT !.total_trades = @ + 1 ]
             ELSE st

WinRate(L) ==
    LET w == WinLoop(L.trades)
    IN  IF w.total_trades > 0
        THEN RMul(RDiv(R(w.winning_trades), R(w.total_trades)), R(100))
        ELSE R(0)

GetAccountState(L, current_prices) ==
    LET counted == PricedSymbols(L, current_prices)
        position_value == SumValue(L.positions, current_prices, counted)
        total_before_loop == RAdd(L.cash_balance, position_value)
        total_return == RMul(RSub(RDiv(total_before_loop, L.initial_capital), R(1)), R(100))
        w == WinLoop(L.trades)
        total_value == IF w.total_value = None THEN total_before_loop ELSE w.total_value
    IN  [ cash_balance |-> L.cash_balance,
          position_value |-> position_value,
          total_value |-> total_value,
          win_rate |-> WinRate(L),
          available_balance |-> L.cash_balance,
          initial_capital |-> L.initial_capital,
          total_return |-> total_return,
          total_return_pct |-> total_return,
          daily_pnl |-> L.daily_pnl,
          total_trades |-> Len(L.trades),
          positions |-> counted,
          circuit_breaker_active |-> L.circuit_breaker_active ]

(***************************************************************************)
(* The ledger as a state machine: any caller may invoke execute_order with *)
(* any arguments, or reset_daily_tracking, at any time.                    *)
(***************************************************************************)
\* No ArenaManager has been constructed: the ledger is used on its own.
NoArena ==
    /\ pc = "none"
    /\ running = FALSE
    /\ shutdown_requested = FALSE
    /\ current_round = 0
    /\ round_results = << >>
    /\ max_rounds = 0
    /\ session_end = "none"
    /\ runs_started = 0
    /\ cleanup_runs = 0
    /\ exported = FALSE
    /\ clients_open = FALSE
    /\ data_fetcher_open = FALSE
    /\ model_order = << >>
    /\ symbols = << >>
    /\ models = << >>
    /\ sym_idx = 0
    /\ round_prices = << >>
    /\ tasks = << >>
    /\ decisions = << >>
    /\ sleep_left = 0

Init ==
    /\ commission_rate \in CommissionRates
    /\ slippage \in Slippages
    /\ cash_balance = initial_capital
    /\ positions = << >>
    /\ orders = << >>
    /\ trades = << >>
    /\ daily_pnl = R(0)
    /\ circuit_breaker_active = FALSE
    /\ call = "__init__"
    /\ raised = NoException
    /\ NoArena
    /\ DataFetcher
    /\ request = NoRequest
    /\ provider_calls = << >>
    /\ responses = << >>
    /\ collects = << >>

SetLedger(L) ==
    /\ cash_balance' = L.cash_balance
    /\ positions' = L.positions
    /\ orders' = L.orders
    /\ trades' = L.trades
    /\ daily_pnl' = L.daily_pnl
    /\ circuit_breaker_active' = L.circuit_breaker_active

Execute ==
    /\ \E req \in Requests :
         LET r == ExecuteOrder(Ledger, req[1], req[2], req[3], req[4],
                               commission_rate, slippage)
         IN  /\ Len(r.ledger.orders) <= MaxOrders
             /\ SetLedger(r.ledger)
             /\ raised' = r.raised
             /\ call' = "execute_order"
    /\ UNCHANGED << commission_rate, slippage, arenaVars, fetcherVars, adapterVars >>

ResetDaily ==
    /\ SetLedger(ResetDailyTracking(Ledger))
    /\ raised' = NoException
    /\ call' = "reset_daily_tracking"
    /\ UNCHANGED << commission_rate, slippage, arenaVars, fetcherVars, adapterVars >>

Next == Execute \/ ResetDaily

Spec == Init /\ [][Next]_vars

(***************************************************************************)
(* The same ledger driven by orders whose losses land on, above and below  *)
(* the daily loss limit: with no commission and no slippage, buying 4 at   *)
(* 10 and selling 4 at 35/4 realises exactly -max_daily_loss.              *)
(***************************************************************************)
ThresholdRequests ==
    { << "BTC/USDT", "BUY", R(4), R(10) >>,
      << "BTC/USDT", "SELL", R(4), Rat(35, 4) >>,
      << "BTC/USDT", "SELL", R(4), R(8) >>,
      << "BTC/USDT", "SELL", R(4), R(10) >>,
      << "ETH/USDT", "BUY", R(4), R(10) >> }

ExecuteAtThreshold ==
    /\ \E req \in ThresholdRequests :
         LET r == ExecuteOrder(Ledger, req[1], req[2], req[3], req[4],
                               commission_rate, slippage)
         IN  /\ Len(r.ledger.orders) <= MaxOrders
             /\ SetLedger(r.ledger)
             /\ raised' = r.raised
             /\ call' = "execute_order"
    /\ UNCHANGED << commission_rate, slippage, arenaVars, fetcherVars, adapterVars >>

NextThreshold == ExecuteAtThreshold \/ ResetDaily

SpecThreshold == Init /\ [][NextThreshold]_vars

(***************************************************************************)
(* The competition: LLMManager with one ModelState (and one PaperExchange) *)
(* per enabled model.                                                      *)
(***************************************************************************)
MaxRound == 2

MaxRuns == 2

DecisionIntervalTicks == 2

\* LLMManager.initialize inserts the enabled models in the order of their
\* configured priorities: model_order is that order.
Enabled == { model_order[i] : i \in 1..Len(model_order) }

ModelOrders == { << "deepseek", "openai" >>, << "openai", "deepseek" >> }

capital_per_model == R(200)

\* The close of the latest 3m candle that a successful fetch returns.
ClosePrice == [ s \in Symbols |-> R(10) ]

position_cap_tenth == Rat(10, 100)

position_cap == Rat(5, 100)

Decision(symbol, action, position_size) ==
    [ symbol |-> symbol, action |-> action, position_size |-> position_size ]

\* The validated responses a model may give: hold, a BUY (capped at 5% of
\* cash by the executor), a full SELL.
Bundles ==
    { << Decision("BTC/USDT", "HOLD", R(0)) >>,
      << Decision("BTC/USDT", "BUY", Rat(1, 2)) >>,
      << Decision("BTC/USDT", "SELL", R(1)) >> }

\* ModelState; rate_limit_calls is the list its adapter keeps of the calls
\* _rate_limit has recorded (BaseLLMClient.rate_limit_calls).
ModelState(provider, priority) ==
    [ provider |-> provider,
      priority |-> priority,
      decisions_made |-> 0,
      trades_executed |-> 0,
      errors |-> 0,
      error_message |-> "None",
      client |-> "None",
      rate_limit_calls |-> << >>,
      exchange |-> NewLedger(capital_per_model) ]

RecordDecision(state) == [ state EXCEPT !.decisions_made = @ + 1 ]

\* record_trade leaving the count alone.
RecordTradeUncounted(state) == state

RecordTrade(state) == [ state EXCEPT !.trades_executed = @ + 1 ]

RecordErrorTwice(state, error) ==
    [ state EXCEPT !.errors = @ + 2, !.error_message = error ]

RecordError(state, error) ==
    [ state EXCEPT !.errors = @ + 1, !.error_message = error ]

RMin(a, b) == IF RLe(a, b) THEN a ELSE b

(***************************************************************************)
(* LLMManager.execute_multi_asset_decisions.  acc carries the ModelState   *)
(* and success_count through the decisions of one model's bundle.          *)
(***************************************************************************)
OrderOutcomeErrorsUnrecorded(acc, r) ==
    IF r.raised = NoException
    THEN [ state |-> RecordTrade([ acc.state EXCEPT !.exchange = r.ledger ]),
           success_count |-> acc.success_count + 1 ]
    ELSE [ state |-> [ acc.state EXCEPT !.exchange = r.ledger ],
           success_count |-> acc.success_count ]

OrderOutcome(acc, r) ==
    IF r.raised = NoException
    THEN [ state |-> RecordTrade([ acc.state EXCEPT !.exchange = r.ledger ]),
           success_count |-> acc.success_count + 1 ]
    ELSE [ state |-> RecordError([ acc.state EXCEPT !.exchange = r.ledger ], r.raised),
           success_count |-> acc.success_count ]

ExecuteDecision(acc, decision, prices, comm_rate, slip) ==
    LET state == acc.state
        symbol == decision.symbol
    IN  IF symbol \notin DOMAIN prices THEN acc
        ELSE IF decision.action = "BUY"
        THEN LET available == state.exchange.cash_balance
                 capped_position_size == RMin(decision.position_size, position_cap)
                 position_value == RMul(available, capped_position_size)
                 size == RDiv(position_value, prices[symbol])
             IN  OrderOutcome(acc, ExecuteOrder(state.exchange, symbol, "BUY", size,
                                                prices[symbol], comm_rate, slip))
        ELSE IF decision.action = "SELL"
        THEN IF symbol \in DOMAIN state.exchange.positions
             THEN LET size == RMul(state.exchange.positions[symbol].size,
                                   decision.position_size)
                  IN  OrderOutcome(acc, ExecuteOrder(state.exchange, symbol, "SELL", size,
                                                     prices[symbol], comm_rate, slip))
             ELSE acc
        ELSE [ acc EXCEPT !.success_count = @ + 1 ]

RECURSIVE ExecuteDecisionList(_, _, _, _, _)
ExecuteDecisionList(acc, decision_list, prices, comm_rate, slip) ==
    IF decision_list = << >> THEN acc
    ELSE ExecuteDecisionList(
             ExecuteDecision(acc, Head(decision_list), prices, comm_rate, slip),
             Tail(decision_list), prices, comm_rate, slip)

ExecuteMultiAssetDecisions(M, D, prices, comm_rate, slip) ==
    [ m \in DOMAIN M |->
        IF D[m] = None
        THEN [ state |-> M[m], success_count |-> 0 ]
        ELSE ExecuteDecisionList([ state |-> M[m], success_count |-> 0 ],
                                 D[m], prices, comm_rate, slip) ]

(***************************************************************************)
(* ModelState.get_performance and LLMManager.get_leaderboard.  The account *)
(* state is asked for without prices.  list.sort(reverse = True) is        *)
(* stable: performances with equal return_pct keep the order of            *)
(* self.models.                                                            *)
(***************************************************************************)
GetPerformance(state) ==
    LET account_state == GetAccountState(state.exchange, << >>)
    IN  [ provider |-> state.provider,
          priority |-> state.priority,
          decisions_made |-> state.decisions_made,
          trades_executed |-> state.trades_executed,
          errors |-> state.errors,
          account_value |-> account_state.total_value,
          return_pct |-> account_state.total_return_pct,
          win_rate |-> account_state.win_rate,
          total_trades |-> account_state.total_trades ]

RECURSIVE InsertByReturn(_, _)
InsertByReturn(sorted, x) ==
    IF sorted = << >> THEN << x >>
    ELSE IF RLt(Head(sorted).return_pct, x.return_pct) THEN << x >> \o sorted
    ELSE << Head(sorted) >> \o InsertByReturn(Tail(sorted), x)

RECURSIVE SortByReturn(_)
SortByReturn(performances) ==
    IF performances = << >> THEN << >>
    ELSE InsertByReturn(SortByReturn(SubSeq(performances, 1, Len(performances) - 1)),
                        performances[Len(performances)])

GetLeaderboard(M, order) ==
    SortByReturn([ i \in 1..Len(order) |-> GetPerformance(M[order[i]]) ])

RECURSIVE Actions(_)
Actions(decision_list) ==
    IF decision_list = << >> THEN << >>
    ELSE << Head(decision_list).action >> \o Actions(Tail(decision_list))

RoundResultFirstRound(round, prices, D, executed, order) ==
    [ round |-> 1,
      prices |-> prices,
      decisions |-> [ m \in DOMAIN D |->
                        [ num_decisions |-> Len(D[m]), actions |-> Actions(D[m]) ] ],
      executions |-> [ m \in DOMAIN executed |-> executed[m].success_count ],
      leaderboard |-> GetLeaderboard([ m \in DOMAIN executed |-> executed[m].state ], order) ]

RoundResult(round, prices, D, executed, order) ==
    [ round |-> round,
      prices |-> prices,
      decisions |-> [ m \in DOMAIN D |->
                        [ num_decisions |-> Len(D[m]), actions |-> Actions(D[m]) ] ],
      executions |-> [ m \in DOMAIN executed |-> executed[m].success_count ],
      leaderboard |-> GetLeaderboard([ m \in DOMAIN executed |-> executed[m].state ], order) ]

(***************************************************************************)
(* ArenaManager as a state machine.  pc is the point run_competition (and  *)
(* the round it awaits) has reached; every await is a point where other    *)
(* steps (a signal, the clock, an adapter's reply) may come in between.    *)
(***************************************************************************)
ledgerVars == << commission_rate, slippage, cash_balance, positions, orders, trades,
                 daily_pnl, circuit_breaker_active, call, raised >>

sessionVars == << running, max_rounds, session_end, runs_started, cleanup_runs,
                  exported >>

resourceVars == << clients_open, data_fetcher_open, model_order, symbols >>

roundVars == << sym_idx, round_prices, tasks, decisions >>

\* ArenaManager.__init__ under a configuration: the enabled models in
\* priority order, the traded symbols and the commission rate.
ConstructedWith(order, syms, comm_rate) ==
    /\ commission_rate = comm_rate
    /\ slippage = R(0)
    /\ model_order = order
    /\ symbols = syms
    /\ cash_balance = initial_capital
    /\ positions = << >>
    /\ orders = << >>
    /\ trades = << >>
    /\ daily_pnl = R(0)
    /\ circuit_breaker_active = FALSE
    /\ call = "__init__"
    /\ raised = NoException
    /\ pc = "created"
    /\ running = FALSE
    /\ shutdown_requested = FALSE
    /\ current_round = 0
    /\ round_results = << >>
    /\ max_rounds = 0
    /\ session_end = "none"
    /\ runs_started = 0
    /\ cleanup_runs = 0
    /\ exported = FALSE
    /\ clients_open = FALSE
    /\ data_fetcher_open = FALSE
    /\ models = << >>
    /\ sym_idx = 0
    /\ round_prices = << >>
    /\ tasks = << >>
    /\ decisions = << >>
    /\ sleep_left = 0
    /\ DataFetcher
    /\ request = NoRequest
    /\ provider_calls = << >>
    /\ responses = << >>
    /\ collects = << >>

Constructed(order, syms) == ConstructedWith(order, syms, Rat(1, 10))

\* ArenaManager.initialize and LLMManager.initialize: every enabled model
\* gets the adapter of its provider from create_llm_client.
InitializeWith(capital) ==
    /\ pc = "created"
    /\ pc' = "ready"
    /\ models' = [ m \in Enabled |->
                     [ ModelState(m, CHOOSE i \in 1..Len(model_order) : model_order[i] = m)
                         EXCEPT !.client = "provider", !.exchange = NewLedger(capital) ] ]
    /\ clients_open' = TRUE
    /\ data_fetcher_open' = TRUE
    /\ tasks' = [ m \in Enabled |-> "none" ]
    /\ decisions' = [ m \in Enabled |-> None ]
    /\ UNCHANGED << ledgerVars, fetcherVars, adapterVars, sessionVars, shutdown_requested, current_round,
                    round_results, model_order, symbols, sym_idx, round_prices,
                    sleep_left >>

Initialize == InitializeWith(capital_per_model)

\* A caller replaces a model's adapter by a MockLLMClient before the run
\* (state.client = client, as the chaos tests and the mock factory's users do).
InstallMock(m) ==
    /\ pc = "ready"
    /\ runs_started = 0
    /\ models[m].client = "provider"
    /\ models' = [ models EXCEPT ![m].client = "mock" ]
    /\ UNCHANGED << ledgerVars, fetcherVars, adapterVars, sessionVars, resourceVars, roundVars, shutdown_requested,
                    pc, current_round, round_results, sleep_left >>

\* run_competition up to the first test of its loop.  Nothing in it looks at
\* whether a run was made before.
RunCompetitionWith(rounds, durations) ==
    /\ pc \in {"ready", "stopped"}
    /\ runs_started < MaxRuns
    /\ \E mr \in rounds, duration_minutes \in durations :
         /\ max_rounds' = mr
         /\ session_end' = IF duration_minutes THEN "future" ELSE session_end
    /\ running' = TRUE
    /\ runs_started' = runs_started + 1
    /\ cleanup_runs' = 0
    /\ exported' = FALSE
    /\ pc' = "loop"
    /\ UNCHANGED << ledgerVars, fetcherVars, adapterVars, resourceVars, roundVars, shutdown_requested,
                    current_round, round_results, models, sleep_left >>

\* Any caller: max_rounds absent (0) or given, a duration or none.
RunCompetition == RunCompetitionWith(0..MaxRound, BOOLEAN)

\* A caller asking once for a number of rounds, without a duration.
RunRounds == runs_started = 0 /\ RunCompetitionWith(1..MaxRound, {FALSE})

\* The three tests at the head of the loop (lines 158 to 166).
LoopContinuesOneMore ==
    /\ running
    /\ ~shutdown_requested
    /\ session_end # "past"
    /\ ~(max_rounds # 0 /\ current_round > max_rounds)

LoopContinues ==
    /\ running
    /\ ~shutdown_requested
    /\ session_end # "past"
    /\ ~(max_rounds # 0 /\ current_round >= max_rounds)

\* The loop goes on: _run_trading_round starts and runs to its first await.
StartRound ==
    /\ pc = "loop"
    /\ LoopContinues
    /\ current_round < MaxRound
    /\ current_round' = current_round + 1
    /\ sym_idx' = 1
    /\ round_prices' = << >>
    /\ pc' = "fetch"
    /\ UNCHANGED << ledgerVars, fetcherVars, adapterVars, sessionVars, resourceVars, shutdown_requested,
                    round_results, models, tasks, decisions, sleep_left >>

LeaveLoop ==
    /\ pc = "loop"
    /\ ~LoopContinues
    /\ pc' = "final"
    /\ UNCHANGED << ledgerVars, fetcherVars, adapterVars, sessionVars, resourceVars, roundVars, shutdown_requested,
                    current_round, round_results, models, sleep_left >>

\* The symbol loop of the round: one fetch_multi_timeframe call per symbol,
\* awaited before the next one starts.
FetchStart ==
    /\ pc = "fetch"
    /\ pc' = "fetching"
    /\ UNCHANGED << ledgerVars, fetcherVars, adapterVars, sessionVars, resourceVars, roundVars, shutdown_requested,
                    current_round, round_results, models, sleep_left >>

\* What follows the fetch of symbols[sym_idx]: the next symbol, or after the
\* last one either RuntimeError (no data at all; the round logs it and
\* returns) or the fan-out to the models: gather schedules one task per
\* model and each runs to its adapter call before any reply is handled.
AfterFetch(prices_after) ==
    /\ round_prices' = prices_after
    /\ IF sym_idx < Len(symbols)
       THEN /\ sym_idx' = sym_idx + 1
            /\ pc' = "fetch"
            /\ UNCHANGED << tasks, decisions, provider_calls >>
       ELSE /\ sym_idx' = 0
            /\ IF prices_after = << >>
               THEN /\ pc' = "display"
                    /\ UNCHANGED << tasks, decisions, provider_calls >>
               ELSE /\ pc' = "collect"
                    /\ tasks' = [ m \in Enabled |-> "awaiting" ]
                    /\ decisions' = [ m \in Enabled |-> None ]
                    /\ provider_calls' = [ m \in Enabled |-> 1 ]
    /\ UNCHANGED << ledgerVars, fetcherVars, request, responses, collects, sessionVars, resourceVars, shutdown_requested,
                    current_round, round_results, models, sleep_left >>

FetchOk ==
    /\ pc = "fetching"
    /\ AfterFetch([ s \in DOMAIN round_prices \cup {symbols[sym_idx]} |->
                      IF s = symbols[sym_idx] THEN ClosePrice[s] ELSE round_prices[s] ])

FetchFailsDropsSnapshot ==
    /\ pc = "fetching"
    /\ AfterFetch(<< >>)

FetchFails ==
    /\ pc = "fetching"
    /\ AfterFetch(round_prices)

\* get_all_multi_asset_decisions: the tasks under asyncio.gather.  TaskDone is
\* a task returning: its ModelState as it leaves it, and its result.
TaskDone(m, state, result) ==
    /\ tasks' = [ tasks EXCEPT ![m] = "done" ]
    /\ models' = [ models EXCEPT ![m] = state ]
    /\ decisions' = [ decisions EXCEPT ![m] = result ]
    /\ UNCHANGED << ledgerVars, fetcherVars, adapterVars, sessionVars, resourceVars, shutdown_requested, pc,
                    current_round, round_results, sym_idx, round_prices, sleep_left >>

\* The adapter answers and the answer validates.
CallReturns(m) ==
    /\ pc = "collect"
    /\ tasks[m] = "awaiting"
    /\ \E bundle \in Bundles : TaskDone(m, RecordDecision(models[m]), bundle)

\* The adapter raises, or its answer does not validate.
CallFails(m) ==
    /\ pc = "collect"
    /\ tasks[m] = "awaiting"
    /\ TaskDone(m, RecordError(models[m], "LLMAPIError"), None)

\* The request behind the adapter call will never be answered.
CallHangs(m) ==
    /\ pc = "collect"
    /\ tasks[m] = "awaiting"
    /\ tasks' = [ tasks EXCEPT ![m] = "hung" ]
    /\ UNCHANGED << ledgerVars, fetcherVars, adapterVars, sessionVars, resourceVars, shutdown_requested, pc,
                    current_round, round_results, models, sym_idx, round_prices,
                    decisions, sleep_left >>

\* ModelParameters.max_retries, the attempts an adapter is configured with.
default_max_retries == 3

\* The adapter of each provider wraps its request in
\* asyncio.wait_for(..., timeout) and raises LLMTimeoutError(...) when the
\* timeout fires; the task records what that raise produces and returns
\* None.  MockLLMClient._call_api awaits asyncio.sleep(latency) with no
\* timeout around it, and neither the task nor gather adds one.
TimeoutArmed(client, status) == client = "provider" /\ status \in {"awaiting", "hung"}

CallTimesOut(m) ==
    /\ pc = "collect"
    /\ TimeoutArmed(models[m].client, tasks[m])
    /\ TaskDone(m, RecordError(models[m], New("LLMTimeoutError", 1, { "model" })), None)

\* gather has every result: the decisions are executed and the round is
\* recorded (no await separates the two).
FinishRound ==
    /\ pc = "collect"
    /\ \A m \in Enabled : tasks[m] = "done"
    /\ LET executed == ExecuteMultiAssetDecisions(models, decisions, round_prices,
                                                  commission_rate, slippage)
       IN  /\ models' = [ m \in Enabled |-> executed[m].state ]
           /\ round_results' = Append(round_results,
                  RoundResult(current_round, round_prices, decisions, executed, model_order))
    /\ tasks' = [ m \in Enabled |-> "none" ]
    /\ decisions' = [ m \in Enabled |-> None ]
    /\ pc' = "display"
    /\ UNCHANGED << ledgerVars, fetcherVars, adapterVars, sessionVars, resourceVars, shutdown_requested,
                    current_round, sym_idx, round_prices, sleep_left >>

\* Back in run_competition (the round has caught and logged whatever it
\* raised): the round summary, then the test before the sleep.
DisplayRoundSummary ==
    /\ pc = "display"
    /\ IF ~shutdown_requested /\ (max_rounds = 0 \/ current_round < max_rounds)
       THEN pc' = "sleep" /\ sleep_left' = DecisionIntervalTicks
       ELSE pc' = "loop" /\ sleep_left' = sleep_left
    /\ UNCHANGED << ledgerVars, fetcherVars, adapterVars, sessionVars, resourceVars, roundVars, shutdown_requested,
                    current_round, round_results, models >>

\* asyncio.sleep(decision_interval): it ends when the interval has elapsed.
SleepTick ==
    /\ pc = "sleep"
    /\ sleep_left > 0
    /\ sleep_left' = sleep_left - 1
    /\ UNCHANGED << ledgerVars, fetcherVars, adapterVars, sessionVars, resourceVars, roundVars, shutdown_requested,
                    pc, current_round, round_results, models >>

SleepEnds ==
    /\ pc = "sleep"
    /\ sleep_left = 0
    /\ pc' = "loop"
    /\ UNCHANGED << ledgerVars, fetcherVars, adapterVars, sessionVars, resourceVars, roundVars, shutdown_requested,
                    current_round, round_results, models, sleep_left >>

DisplayFinalResults ==
    /\ pc = "final"
    /\ pc' = "cleanup"
    /\ UNCHANGED << ledgerVars, fetcherVars, adapterVars, sessionVars, resourceVars, roundVars, shutdown_requested,
                    current_round, round_results, models, sleep_left >>

\* The finally block: running = False, then _cleanup: export_results (which
\* logs and swallows its own failures) and llm_manager.close(), which calls
\* close() on the adapters that have such a method: no adapter class defines
\* one, so none is closed.  The data fetcher is not touched.
Cleanup ==
    /\ pc = "cleanup"
    /\ running' = FALSE
    /\ cleanup_runs' = cleanup_runs + 1
    /\ exported' \in BOOLEAN
    /\ pc' = "stopped"
    /\ UNCHANGED << ledgerVars, fetcherVars, adapterVars, resourceVars, roundVars, shutdown_requested, max_rounds,
                    session_end, runs_started, current_round, round_results, models,
                    sleep_left >>

\* SIGINT or SIGTERM: the handler installed by setup_signal_handlers.
Signal ==
    /\ runs_started >= 1
    /\ ~shutdown_requested
    /\ shutdown_requested' = TRUE
    /\ UNCHANGED << ledgerVars, fetcherVars, adapterVars, sessionVars, resourceVars, roundVars, pc, current_round,
                    round_results, models, sleep_left >>

\* The clock reaches session_end.
DeadlinePasses ==
    /\ session_end = "future"
    /\ session_end' = "past"
    /\ UNCHANGED << ledgerVars, fetcherVars, adapterVars, resourceVars, roundVars, shutdown_requested, running,
                    max_rounds, runs_started, cleanup_runs, exported,
                    pc, current_round, round_results, models, sleep_left >>

SchedulerStep ==
    \/ StartRound
    \/ LeaveLoop
    \/ FetchStart
    \/ FinishRound
    \/ DisplayRoundSummary
    \/ SleepTick
    \/ SleepEnds
    \/ DisplayFinalResults
    \/ Cleanup

InitArena == Constructed(<< "deepseek" >>, << "BTC/USDT", "ETH/USDT" >>)

NextArena ==
    \/ Initialize
    \/ RunCompetition
    \/ SchedulerStep
    \/ FetchOk
    \/ FetchFails
    \/ \E m \in Enabled : CallReturns(m)
    \/ \E m \in Enabled : CallFails(m)
    \/ Signal
    \/ DeadlinePasses

SpecArena == InitArena /\ [][NextArena]_vars

(***************************************************************************)
(* The broker at work: two models, one symbol (the default                 *)
(* exchange.symbols), a caller that asks for a number of rounds, and       *)
(* adapters (provider or mock) that answer, fail, or never get an answer.   *)
(***************************************************************************)
InitBroker == \E order \in ModelOrders : Constructed(order, << "BTC/USDT" >>)

NextBroker ==
    \/ Initialize
    \/ RunRounds
    \/ SchedulerStep
    \/ FetchOk
    \/ FetchFails
    \/ \E m \in Enabled : CallReturns(m)
    \/ \E m \in Enabled : CallFails(m)
    \/ \E m \in Enabled : CallHangs(m)
    \/ \E m \in Enabled : CallTimesOut(m)
    \/ \E m \in Enabled : InstallMock(m)

SpecBroker == InitBroker /\ [][NextBroker]_vars

(***************************************************************************)
(* The executor at work: LLMManager driven directly, as the integration    *)
(* tests drive it.  Two models under a configured capital_per_model are    *)
(* handed the bundles a collection returned (or None) and the prices of    *)
(* the round, and execute_multi_asset_decisions applies them.              *)
(***************************************************************************)
MaxApplied == 2

ExecCapitals == { R(200), R(220) }

ExecPrices ==
    { [ s \in {"BTC/USDT", "ETH/USDT"} |-> R(10) ],
      [ s \in {"BTC/USDT"} |-> R(10) ] }

\* Validated bundles: one decision per symbol at most, position_size in
\* [0, 1].
ExecBundles ==
    { << Decision("BTC/USDT", "HOLD", R(0)) >>,
      << Decision("BTC/USDT", "BUY", Rat(1, 2)), Decision("ETH/USDT", "BUY", Rat(1, 2)) >>,
      << Decision("BTC/USDT", "BUY", R(0)), Decision("ETH/USDT", "BUY", Rat(1, 2)) >>,
      << Decision("ETH/USDT", "BUY", Rat(1, 40)) >>,
      << Decision("BTC/USDT", "SELL", R(1)), Decision("ETH/USDT", "BUY", Rat(1, 40)) >>,
      << Decision("ETH/USDT", "SELL", Rat(1, 2)), Decision("BTC/USDT", "SELL", R(1)) >> }

InitializeFunded == \E capital \in ExecCapitals : InitializeWith(capital)

\* get_all_multi_asset_decisions has returned: one entry per model.
DecisionsCollected ==
    /\ pc = "ready"
    /\ \A m \in Enabled : models[m].trades_executed + models[m].errors < MaxApplied
    /\ decisions' \in [ Enabled -> ExecBundles \cup {None} ]
    /\ round_prices' \in ExecPrices
    /\ tasks' = [ m \in Enabled |-> "done" ]
    /\ pc' = "collect"
    /\ UNCHANGED << ledgerVars, fetcherVars, adapterVars, sessionVars, resourceVars, shutdown_requested,
                    current_round, round_results, models, sym_idx, sleep_left >>

\* execute_multi_asset_decisions(decisions, current_prices).
DecisionsExecuted ==
    /\ pc = "collect"
    /\ \A m \in Enabled : tasks[m] = "done"
    /\ LET executed == ExecuteMultiAssetDecisions(models, decisions, round_prices,
                                                  commission_rate, slippage)
       IN  models' = [ m \in Enabled |-> executed[m].state ]
    /\ tasks' = [ m \in Enabled |-> "none" ]
    /\ decisions' = [ m \in Enabled |-> None ]
    /\ pc' = "ready"
    /\ UNCHANGED << ledgerVars, fetcherVars, adapterVars, sessionVars, resourceVars, shutdown_requested,
                    current_round, round_results, sym_idx, round_prices, sleep_left >>

InitExecute ==
    ConstructedWith(<< "deepseek", "openai" >>, << "BTC/USDT", "ETH/USDT" >>, R(0))

NextExecute ==
    \/ InitializeFunded
    \/ DecisionsCollected
    \/ DecisionsExecuted

SpecExecute == InitExecute /\ [][NextExecute]_vars

(***************************************************************************)
(* The executor on a moving market: the same two models, bundles of one    *)
(* decision on BTC/USDT, and round prices that differ from one round to    *)
(* the next.                                                               *)
(***************************************************************************)
MarketPrices == { [ s \in {"BTC/USDT"} |-> p ] : p \in { R(8), R(10), R(12) } }

MarketBundles ==
    { << Decision("BTC/USDT", "BUY", Rat(1, 2)) >>,
      << Decision("BTC/USDT", "SELL", R(1)) >>,
      << Decision("BTC/USDT", "SELL", Rat(1, 2)) >> }

\* get_all_multi_asset_decisions has returned on the prices of this round.
DecisionsCollectedOnMarket ==
    /\ pc = "ready"
    /\ \A m \in Enabled : models[m].trades_executed + models[m].errors < MaxApplied
    /\ decisions' \in [ Enabled -> MarketBundles \cup {None} ]
    /\ round_prices' \in MarketPrices
    /\ tasks' = [ m \in Enabled |-> "done" ]
    /\ pc' = "collect"
    /\ UNCHANGED << ledgerVars, fetcherVars, adapterVars, sessionVars, resourceVars,
                    shutdown_requested, current_round, round_results, models,
                    sym_idx, sleep_left >>

NextMarket ==
    \/ InitializeFunded
    \/ DecisionsCollectedOnMarket
    \/ DecisionsExecuted

SpecMarket == InitExecute /\ [][NextMarket]_vars

(***************************************************************************)
(* The validation of a multi-asset response: what _call_api returned goes  *)
(* through validate_llm_response(multi_asset=True) inside the model's      *)
(* task, and what the tasks return is executed.  LLMManager driven         *)
(* directly, two models, the responses parsed into lists of decisions.     *)
(***************************************************************************)
\* TradingDecision.symbol left out by the model (default None).
NoSymbol == "None"

\* MultiAssetDecisions.validate_symbols_unique accepting every list.
validate_symbols_any(decision_list) == TRUE

\* MultiAssetDecisions.validate_symbols_unique: the symbols that are given
\* are as many as the distinct ones among them.
validate_symbols_unique(decision_list) ==
    LET given == { i \in 1..Len(decision_list) : decision_list[i].symbol # NoSymbol }
    IN  Cardinality(given) = Cardinality({ decision_list[i].symbol : i \in given })

\* validate_llm_response(response, provider, multi_asset=True) on a parsed
\* array: the exception it raises, "none" when MultiAssetDecisions accepts
\* the list (at least one decision, symbols unique).
validate_llm_response(decision_list) ==
    IF Len(decision_list) >= 1 /\ validate_symbols_unique(decision_list)
    THEN "none"
    ELSE "ValueError"

\* _get_multi_asset_decision_with_error_handling from the return of
\* _call_api on: the ModelState it leaves and what it returns.
MultiAssetDecisionTask(state, response) ==
    IF validate_llm_response(response) = "none"
    THEN [ state |-> RecordDecision(state), result |-> response ]
    ELSE [ state |-> RecordError(state, validate_llm_response(response)),
           result |-> None ]

\* What the adapters answer: two decisions on one symbol (alike, or a BUY
\* and a SELL), decisions on two symbols, two decisions without a symbol, a
\* repeated symbol after another one, an empty array, one decision.
Responses ==
    { << Decision("BTC/USDT", "BUY", Rat(1, 40)), Decision("BTC/USDT", "BUY", Rat(1, 40)) >>,
      << Decision("BTC/USDT", "BUY", Rat(1, 40)), Decision("BTC/USDT", "SELL", R(1)) >>,
      << Decision("BTC/USDT", "BUY", Rat(1, 40)), Decision("ETH/USDT", "BUY", Rat(1, 40)) >>,
      << Decision(NoSymbol, "BUY", Rat(1, 40)), Decision(NoSymbol, "BUY", Rat(1, 40)) >>,
      << Decision("ETH/USDT", "BUY", Rat(1, 40)), Decision("BTC/USDT", "BUY", Rat(1, 40)),
         Decision("ETH/USDT", "SELL", R(1)) >>,
      << >>,
      << Decision("BTC/USDT", "SELL", R(1)) >> }

\* get_all_multi_asset_decisions with every adapter answering: each task
\* validates its response, and gather returns one entry per model.
ResponsesValidated ==
    /\ pc = "ready"
    /\ \A m \in Enabled : models[m].decisions_made + models[m].errors < MaxApplied
    /\ \E rs \in [ Enabled -> Responses ] :
         /\ responses' = rs
         /\ models' = [ m \in Enabled |-> MultiAssetDecisionTask(models[m], rs[m]).state ]
         /\ decisions' = [ m \in Enabled |-> MultiAssetDecisionTask(models[m], rs[m]).result ]
    /\ round_prices' \in ExecPrices
    /\ tasks' = [ m \in Enabled |-> "done" ]
    /\ provider_calls' = [ m \in Enabled |-> 1 ]
    /\ pc' = "collect"
    /\ UNCHANGED << ledgerVars, fetcherVars, request, collects, sessionVars, resourceVars,
                    shutdown_requested, current_round, round_results, sym_idx,
                    sleep_left >>

NextValidate ==
    \/ InitializeFunded
    \/ ResponsesValidated
    \/ DecisionsExecuted

SpecValidate == InitExecute /\ [][NextValidate]_vars

(***************************************************************************)
(* Concurrent get_all_decisions calls on one model set.  Every call        *)
(* gathers one _get_decision_with_error_handling task per model; a task    *)
(* is suspended in get_trading_decision and, resumed, runs to its return   *)
(* without another await.  The event loop resumes one task at a time.      *)
(***************************************************************************)
MaxCollects == 3

\* What get_trading_decision does to the task awaiting it: returns a
\* decision, or raises.
DecisionOutcomes == { "ok", "LLMAPIError" }

\* The task writing back 1 + the count it saw when it started on a fresh
\* ModelState, whatever the other tasks recorded meanwhile.
DecisionTaskOverwrites(state, outcome) ==
    IF outcome = "ok"
    THEN [ state EXCEPT !.decisions_made = 1 ]
    ELSE RecordError(state, outcome)

\* _get_decision_with_error_handling from the resumption on: record_decision
\* after a decision, record_error in either except clause.
DecisionTask(state, outcome) ==
    IF outcome = "ok"
    THEN RecordDecision(state)
    ELSE RecordError(state, outcome)

\* get_all_decisions up to its gather: one task per enabled model, each
\* run up to its await of _call_api; on the way _rate_limit, below the
\* adapter's limit, records the call without waiting.
GetAllDecisions ==
    /\ pc = "ready"
    /\ Len(collects) < MaxCollects
    /\ collects' = Append(collects, [ tasks |-> [ m \in Enabled |-> "awaiting" ],
                                      returned |-> FALSE ])
    /\ models' = [ m \in Enabled |->
                     [ models[m] EXCEPT !.rate_limit_calls = Append(@, clock) ] ]
    /\ UNCHANGED << ledgerVars, fetcherVars, request, provider_calls, responses,
                    sessionVars, resourceVars, pc, shutdown_requested,
                    current_round, round_results, tasks, decisions, sym_idx,
                    round_prices, sleep_left >>

\* The event loop resumes the task of model m under call c.
DecisionTaskSettles(c, m) ==
    /\ collects[c].tasks[m] = "awaiting"
    /\ \E outcome \in DecisionOutcomes :
         /\ models' = [ models EXCEPT ![m] = DecisionTask(@, outcome) ]
         /\ collects' = [ collects EXCEPT ![c].tasks[m] = outcome ]
    /\ UNCHANGED << ledgerVars, fetcherVars, request, provider_calls, responses,
                    sessionVars, resourceVars, pc, shutdown_requested,
                    current_round, round_results, tasks, decisions, sym_idx,
                    round_prices, sleep_left >>

\* gather of call c returns once all its tasks have; the dict built from
\* the results holds None for the failed ones.
GetAllDecisionsReturns(c) ==
    /\ ~ collects[c].returned
    /\ \A m \in DOMAIN collects[c].tasks : collects[c].tasks[m] # "awaiting"
    /\ collects' = [ collects EXCEPT ![c].returned = TRUE ]
    /\ UNCHANGED << ledgerVars, arenaVars, fetcherVars, request, provider_calls,
                    responses >>

NextCollect ==
    \/ InitializeFunded
    \/ GetAllDecisions
    \/ \E c \in 1..Len(collects) : \E m \in Enabled : DecisionTaskSettles(c, m)
    \/ \E c \in 1..Len(collects) : GetAllDecisionsReturns(c)

SpecCollect == InitExecute /\ [][NextCollect]_vars

(***************************************************************************)
(* RateLimiter (core/data_fetcher.py): acquire called by concurrent tasks. *)
(* acquire runs without suspension up to its asyncio.sleep and again from  *)
(* the sleep's end to its return, so each half is one step.                *)
(***************************************************************************)
MaxClock == 2

MaxAcquired == 4

\* The object is used on its own: no ledger activity, no ArenaManager.
NoCompetition ==
    /\ commission_rate = R(0)
    /\ slippage = R(0)
    /\ cash_balance = initial_capital
    /\ positions = << >>
    /\ orders = << >>
    /\ trades = << >>
    /\ daily_pnl = R(0)
    /\ circuit_breaker_active = FALSE
    /\ call = "__init__"
    /\ raised = NoException
    /\ NoArena
    /\ request = NoRequest
    /\ provider_calls = << >>
    /\ responses = << >>
    /\ collects = << >>

\* [call_time for call_time in self.calls if now - call_time < self.time_window]
RecentCalls(calls, now, time_window) ==
    SelectSeq(calls, LAMBDA call_time : now - call_time < time_window)

\* acquire from its call to its sleep, or to its return when it need not wait.
AcquireCalled(c) ==
    /\ acquiring[c].pc = "idle"
    /\ Len(acquired) + Cardinality({ d \in Callers : acquiring[d].pc = "sleeping" })
           < MaxAcquired
    /\ LET now == clock
           calls == RecentCalls(rate_limiter.calls, now, rate_limiter.time_window)
           wait_time == rate_limiter.time_window - (now - calls[1])
       IN  IF Len(calls) >= rate_limiter.max_calls /\ wait_time > 0
           THEN /\ rate_limiter' = [ rate_limiter EXCEPT !.calls = calls ]
                /\ acquiring' = [ acquiring EXCEPT
                                    ![c] = [ pc |-> "sleeping", wake |-> now + wait_time ] ]
                /\ UNCHANGED acquired
           ELSE /\ rate_limiter' = [ rate_limiter EXCEPT !.calls = Append(calls, clock) ]
                /\ acquired' = Append(acquired, clock)
                /\ UNCHANGED acquiring
    /\ UNCHANGED << ledgerVars, arenaVars, adapterVars, clock, cache, fetch >>

\* acquire from the end of its sleep: self.calls.append(time.time()), with
\* no second look at self.calls.
AcquireWakes(c) ==
    /\ acquiring[c].pc = "sleeping"
    /\ clock >= acquiring[c].wake
    /\ rate_limiter' = [ rate_limiter EXCEPT !.calls = Append(@, clock) ]
    /\ acquired' = Append(acquired, clock)
    /\ acquiring' = [ acquiring EXCEPT ![c] = [ pc |-> "idle", wake |-> 0 ] ]
    /\ UNCHANGED << ledgerVars, arenaVars, adapterVars, clock, cache, fetch >>

\* The wall clock advances by a second.
TimePasses ==
    /\ clock < MaxClock
    /\ clock' = clock + 1
    /\ UNCHANGED << ledgerVars, arenaVars, adapterVars, rate_limiter, acquired,
                    acquiring, cache, fetch >>

\* RateLimiter(max_calls = 1 or 2, time_window = 2.0), as the test builds one.
InitLimiter ==
    /\ NoCompetition
    /\ clock = 0
    /\ rate_limiter \in { RateLimiter(max_calls, 2) : max_calls \in 1..2 }
    /\ acquired = << >>
    /\ acquiring = [ c \in Callers |-> [ pc |-> "idle", wake |-> 0 ] ]
    /\ cache = DataCache(60)
    /\ fetch = NoFetch

NextLimiter ==
    \/ \E c \in Callers : AcquireCalled(c)
    \/ \E c \in Callers : AcquireWakes(c)
    \/ TimePasses

SpecLimiter == InitLimiter /\ [][NextLimiter]_vars

(***************************************************************************)
(* BinanceDataFetcher (core/data_fetcher.py): fetch_ohlcv and              *)
(* fetch_multi_timeframe over the cache, the rate limiter and the replies  *)
(* of the exchange.  A candle is its timestamp; a reply of the exchange is *)
(* an exception of ccxt or a list of rows, a row being its milliseconds.   *)
(***************************************************************************)
timeframe_map == { "1m", "3m", "5m", "15m", "30m", "1h", "2h", "4h", "1d" }

\* ccxt's exceptions the first except clause of fetch_ohlcv names.
ExchangeUnavailable == { "RateLimitExceeded", "NetworkError", "ExchangeNotAvailable" }

\* What exchange.fetch_ohlcv gives: one of those, another exception, no
\* rows, rows oldest first, rows with a repeated timestamp, rows newest first.
Replies ==
    { [ error |-> e, rows |-> << >> ] : e \in { "NetworkError", "BadSymbol" } }
    \cup { [ error |-> "none", rows |-> rows ] :
             rows \in { << >>, << 1000, 2000, 3000 >>, << 2000, 2000 >>,
                        << 2000, 1000 >> } }

\* datetime.fromtimestamp(candle[0] / 1000): milliseconds to a datetime,
\* held as its microseconds (the host's zone taken at a fixed offset).
FromTimestamp(ms) == ms * 1000

\* ohlcv[-lookback:]
LastRows(ohlcv, lookback) ==
    IF lookback = 0 \/ Len(ohlcv) <= lookback
    THEN ohlcv
    ELSE SubSeq(ohlcv, Len(ohlcv) - lookback + 1, Len(ohlcv))

\* DataCache's key: f"{symbol}:{timeframe}:{lookback}", one string per
\* triple of the symbols, supported timeframes and lookbacks used here.
CacheKey(symbol, timeframe, lookback) == << symbol, timeframe, lookback >>

\* DataCache.get finds an entry and age < self.ttl (CacheHitAtTtl: and age
\* <= self.ttl).
CacheHitAtTtl(ch, key, now) ==
    key \in DOMAIN ch.cache /\ now - ch.cache[key][1] <= ch.ttl

CacheHit(ch, key, now) ==
    key \in DOMAIN ch.cache /\ now - ch.cache[key][1] < ch.ttl

\* DataCache.get, its effect on the cache: an entry found too old is deleted.
CacheGet(ch, key, now) ==
    IF key \in DOMAIN ch.cache /\ ~ CacheHit(ch, key, now)
    THEN [ ch EXCEPT !.cache = [ k \in DOMAIN ch.cache \ { key } |-> ch.cache[k] ] ]
    ELSE ch

\* DataCache.set
CacheSet(ch, key, now, data) ==
    [ ch EXCEPT !.cache = [ k \in DOMAIN ch.cache \cup { key } |->
                              IF k = key THEN << now, data >> ELSE ch.cache[k] ] ]

\* The try block of fetch_ohlcv after the exchange replied: the candles, or
\* the exception raised inside the block.
Candles(reply, lookback) ==
    LET rows == LastRows(reply.rows, lookback)
        candles == [ i \in 1..Len(rows) |-> [ timestamp |-> FromTimestamp(rows[i]) ] ]
    IN  IF reply.error # "none"
        THEN [ raised |-> reply.error, candles |-> << >> ]
        ELSE IF reply.rows = << >>
        THEN [ raised |-> New("DataFetchError", 1, { "symbol", "timeframe" }),
               candles |-> << >> ]
        ELSE IF \E i \in 2..Len(candles) :
                    candles[i].timestamp < candles[i - 1].timestamp
        THEN [ raised |-> New("InvalidDataError", 1, { "symbol", "details" }),
               candles |-> << >> ]
        ELSE [ raised |-> "none", candles |-> candles ]

\* The except clauses of fetch_ohlcv: what leaves the function for an
\* exception raised inside the try block.
Reraised(e) ==
    IF e \in ExchangeUnavailable
    THEN New("DataFetchError", 1, { "symbol", "details" })
    ELSE New("DataFetchError", 1, { "symbol" })

\* fetch_ohlcv(symbol, timeframe, lookback, use_cache) on cache ch at time
\* now, the exchange replying `reply` if asked: what the caller receives,
\* the cache left, whether acquire and the exchange were called.
fetch_ohlcv(ch, now, symbol, timeframe, lookback, use_cache, reply) ==
    LET key == CacheKey(symbol, timeframe, lookback)
        looked == IF use_cache THEN CacheGet(ch, key, now) ELSE ch
        c == Candles(reply, lookback)
    IN  IF use_cache /\ CacheHit(ch, key, now)
        THEN [ raised |-> "none", returned |-> ch.cache[key][2], cache |-> ch,
               acquired |-> 0, exchange_calls |-> 0 ]
        ELSE IF timeframe \notin timeframe_map
        THEN [ raised |-> New("DataFetchError", 1, { "symbol", "details" }),
               returned |-> << >>, cache |-> looked,
               acquired |-> 0, exchange_calls |-> 0 ]
        ELSE IF c.raised # "none"
        THEN [ raised |-> Reraised(c.raised), returned |-> << >>, cache |-> looked,
               acquired |-> 1, exchange_calls |-> 1 ]
        ELSE [ raised |-> "none", returned |-> c.candles,
               cache |-> IF use_cache THEN CacheSet(looked, key, now, c.candles)
                         ELSE looked,
               acquired |-> 1, exchange_calls |-> 1 ]

\* n calls of acquire at time now, none of which has to wait.
Acquired(lim, now, n) ==
    IF n = 0
    THEN lim
    ELSE [ lim EXCEPT !.calls = RecentCalls(lim.calls, now, lim.time_window)
                                    \o [ i \in 1..n |-> now ] ]

lookback == 2

MaxExchangeCalls == 2

\* A caller awaits fetch_ohlcv("BTC/USDT", timeframe, lookback, use_cache).
FetchOhlcv ==
    \E timeframe \in { "1m", "1h", "99m" }, use_cache \in BOOLEAN, reply \in Replies :
        LET r == fetch_ohlcv(cache, clock, "BTC/USDT", timeframe, lookback,
                             use_cache, reply)
        IN  /\ Len(acquired) < MaxExchangeCalls
            /\ Len(RecentCalls(rate_limiter.calls, clock, rate_limiter.time_window))
                   < rate_limiter.max_calls
            /\ \A c \in Callers : acquiring[c].pc = "idle"
            /\ cache' = r.cache
            /\ rate_limiter' = Acquired(rate_limiter, clock, r.acquired)
            /\ acquired' = acquired \o [ i \in 1..r.acquired |-> clock ]
            /\ fetch' = [ op |-> "fetch_ohlcv", timeframes |-> << timeframe >>,
                          use_cache |-> use_cache,
                          replies |-> IF r.exchange_calls = 0 THEN << >>
                                      ELSE << reply >>,
                          inner |-> << r.raised >>,
                          raised |-> r.raised, returned |-> r.returned,
                          acquired |-> r.acquired,
                          exchange_calls |-> r.exchange_calls ]
            /\ UNCHANGED << ledgerVars, arenaVars, adapterVars, clock, acquiring >>

\* gather keeping the results of the tasks that did not fail.
gather_ohlcv_partial(timeframes, inner) ==
    LET done == { i \in 1..Len(timeframes) : inner[i].raised = "none" }
    IN  { [ raised |-> "none",
            returned |-> [ tf \in { timeframes[i] : i \in done } |->
                             inner[CHOOSE i \in done : timeframes[i] = tf].returned ] ] }

\* asyncio.gather(*tasks) and the dict built from its results: the first
\* exception of a task is raised to the caller; without one, one entry per
\* timeframe.
gather_ohlcv(timeframes, inner) ==
    LET failed == { i \in 1..Len(timeframes) : inner[i].raised # "none" }
    IN  IF failed = { }
        THEN { [ raised |-> "none",
                 returned |-> [ tf \in { timeframes[i] : i \in 1..Len(timeframes) } |->
                                  inner[CHOOSE i \in 1..Len(timeframes) :
                                            timeframes[i] = tf].returned ] ] }
        ELSE { [ raised |-> inner[i].raised, returned |-> << >> ] : i \in failed }

\* A caller awaits fetch_multi_timeframe("BTC/USDT", timeframes, lookback,
\* use_cache).  Every task looks its key up before any of them is resumed
\* with its reply, and the tasks that do not fail store their candles (those
\* of a failed call too: gather does not cancel them).
FetchMultiTimeframe ==
    \E timeframes \in { << "1m", "1h" >>, << "1h", "99m" >>, << "1m" >> },
       use_cache \in BOOLEAN :
      \E replies \in [ 1..Len(timeframes) -> Replies ] :
        LET inner == [ i \in 1..Len(timeframes) |->
                         fetch_ohlcv(cache, clock, "BTC/USDT", timeframes[i],
                                     lookback, use_cache, replies[i]) ]
            key(i) == CacheKey("BTC/USDT", timeframes[i], lookback)
            of(k) == { i \in 1..Len(timeframes) : key(i) = k }
            n == Cardinality({ i \in 1..Len(timeframes) : inner[i].acquired = 1 })
            keys == { k \in DOMAIN cache.cache \cup { key(i) : i \in 1..Len(timeframes) } :
                        \A i \in of(k) : k \in DOMAIN inner[i].cache.cache }
        IN  /\ Len(acquired) + Len(timeframes) <= MaxExchangeCalls
            /\ Len(RecentCalls(rate_limiter.calls, clock, rate_limiter.time_window))
                   + Len(timeframes) <= rate_limiter.max_calls
            /\ \A c \in Callers : acquiring[c].pc = "idle"
            /\ cache' = [ cache EXCEPT !.cache =
                            [ k \in keys |->
                                IF of(k) = { } THEN cache.cache[k]
                                ELSE inner[CHOOSE i \in of(k) : TRUE].cache.cache[k] ] ]
            /\ rate_limiter' = Acquired(rate_limiter, clock, n)
            /\ acquired' = acquired \o [ i \in 1..n |-> clock ]
            /\ \E g \in gather_ohlcv(timeframes, inner) :
                   fetch' = [ op |-> "fetch_multi_timeframe", timeframes |-> timeframes,
                              use_cache |-> use_cache,
                              replies |-> [ i \in 1..Len(timeframes) |->
                                              IF inner[i].exchange_calls = 0
                                              THEN [ error |-> "none", rows |-> << >> ]
                                              ELSE replies[i] ],
                              inner |-> [ i \in 1..Len(timeframes) |-> inner[i].raised ],
                              raised |-> g.raised, returned |-> g.returned,
                              acquired |-> n,
                              exchange_calls |-> n ]
            /\ UNCHANGED << ledgerVars, arenaVars, adapterVars, clock, acquiring >>

\* BinanceDataFetcher with a cache of two seconds, used on its own.
InitFetcher ==
    /\ NoCompetition
    /\ DataFetcherWith(600, 2)

NextFetcher ==
    \/ FetchOhlcv
    \/ FetchMultiTimeframe
    \/ TimePasses

SpecFetcher == InitFetcher /\ [][NextFetcher]_vars

(***************************************************************************)
(* BaseLLMClient.get_trading_decision (models/llm_client.py): the retry    *)
(* loop around _call_api and the validation of the response.  The adapter  *)
(* is one of the four provider clients, whose _call_api turns the failures *)
(* of the request into exceptions, or another subclass whose _call_api     *)
(* raises LLMTimeoutError, LLMRateLimitError or something else itself.     *)
(***************************************************************************)
MaxRetries == 4

\* What becomes of the request a call of _call_api sends.
ProviderOutcomes == { "ok", "invalid_response", "timeout", "rate_limit", "error" }

\* _call_api: the exception it raises, "none" when it returns the response.
CallApi(client, outcome) ==
    IF outcome \in { "ok", "invalid_response" } THEN "none"
    ELSE IF client = "provider"
    THEN CASE outcome = "timeout" -> New("LLMTimeoutError", 1, { "model" })
           [] outcome = "rate_limit" -> New("LLMRateLimitError", 1, { "model" })
           [] outcome = "error" -> New("LLMAPIError", 0, { "model", "reason" })
    ELSE CASE outcome = "timeout" -> "LLMTimeoutError"
           [] outcome = "rate_limit" -> "LLMRateLimitError"
           [] outcome = "error" -> "Exception"

\* One pass through the try block: _call_api, then
\* validate_and_sanitize_llm_response on what it returned.
Attempted(client, outcome) ==
    IF CallApi(client, outcome) # "none" THEN CallApi(client, outcome)
    ELSE IF outcome = "invalid_response" THEN "ValueError"
    ELSE "none"

\* A caller awaits get_trading_decision on an adapter configured with
\* max_retries and retry_delay: _rate_limit records the call, once, before
\* the retry loop.
GetTradingDecision ==
    /\ request.pc \in { "idle", "returned", "failed" }
    /\ \E client \in { "provider", "subclass" }, max_retries \in 1..MaxRetries,
          retry_delay \in { 1, 2 } :
           request' = [ NoRequest EXCEPT !.pc = "calling", !.client = client,
                                         !.max_retries = max_retries,
                                         !.retry_delay = retry_delay,
                                         !.rate_limited = 1 ]
    /\ UNCHANGED << ledgerVars, arenaVars, fetcherVars, provider_calls, responses, collects >>

\* The body of `for attempt in range(self.max_retries)` for one attempt, up
\* to the return, the sleep before the next attempt or the raise after the
\* loop.
Attempt ==
    /\ request.pc = "calling"
    /\ \E outcome \in ProviderOutcomes :
         LET e == Attempted(request.client, outcome)
             called == [ request EXCEPT !.api_calls = @ + 1, !.outcome = outcome,
                                        !.error = e ]
         IN  request' =
               IF e = "none"
               THEN [ called EXCEPT !.pc = "returned" ]
               ELSE IF e \in { "LLMRateLimitError", "LLMTimeoutError" }
                       /\ request.attempt < request.max_retries - 1
               THEN [ called EXCEPT !.pc = "backoff",
                                    !.slept = Append(@, request.retry_delay
                                                          * 2 ^ request.attempt) ]
               ELSE [ called EXCEPT !.pc = "failed",
                                    !.raised = New("LLMAPIError", 0, { "model", "reason" }) ]
    /\ UNCHANGED << ledgerVars, arenaVars, fetcherVars, provider_calls, responses, collects >>

\* asyncio.sleep(wait_time) is over: the loop takes the next attempt.
BackoffEnds ==
    /\ request.pc = "backoff"
    /\ request' = [ request EXCEPT !.pc = "calling", !.attempt = @ + 1 ]
    /\ UNCHANGED << ledgerVars, arenaVars, fetcherVars, provider_calls, responses, collects >>

InitAdapter ==
    /\ NoCompetition
    /\ DataFetcher

NextAdapter ==
    \/ GetTradingDecision
    \/ Attempt
    \/ BackoffEnds

SpecAdapter == InitAdapter /\ [][NextAdapter]_vars

(***************************************************************************)
(* Vocabulary of the properties.                                           *)
(***************************************************************************)
Last(seq) == seq[Len(seq)]

Money == [ cash_balance |-> cash_balance, positions |-> positions, trades |-> trades,
           daily_pnl |-> daily_pnl, circuit_breaker_active |-> circuit_breaker_active ]

OrderAppended == Len(orders') = Len(orders) + 1 /\ SubSeq(orders', 1, Len(orders)) = orders

PriceMaps == UNION { [ D -> PxValues ] : D \in SUBSET Symbols }

\* The ledger rebuilt from a trade log: what the log says happened to cash
\* and positions, starting from initial_capital and no position.
ReplayTrade(st, t) ==
    IF t.action = "BUY"
    THEN [ cash |-> RSub(st.cash, RAdd(RMul(t.price, t.size), t.commission)),
           positions |->
             IF t.symbol \in DOMAIN st.positions
             THEN LET q == st.positions[t.symbol]
                  IN  [ st.positions EXCEPT ![t.symbol] =
                          [ size |-> RAdd(q.size, t.size),
                            entry_price |-> RDiv(RAdd(RMul(q.entry_price, q.size),
                                                      RMul(t.price, t.size)),
                                                 RAdd(q.size, t.size)) ] ]
             ELSE [ s \in DOMAIN st.positions \cup {t.symbol} |->
                      IF s = t.symbol
                      THEN [ size |-> t.size, entry_price |-> t.price ]
                      ELSE st.positions[s] ] ]
    ELSE [ cash |-> RAdd(st.cash, RSub(RMul(t.price, t.size), t.commission)),
           positions |->
             IF t.symbol \notin DOMAIN st.positions THEN st.positions
             ELSE IF st.positions[t.symbol].size = t.size
             THEN [ s \in DOMAIN st.positions \ {t.symbol} |-> st.positions[s] ]
             ELSE [ st.positions EXCEPT ![t.symbol].size = RSub(@, t.size) ] ]

RECURSIVE Replay(_)
Replay(log) ==
    IF log = << >>
    THEN [ cash |-> initial_capital, positions |-> << >> ]
    ELSE ReplayTrade(Replay(SubSeq(log, 1, Len(log) - 1)), Last(log))

TradesOf(s) == SelectSeq(trades, LAMBDA t : t.symbol = s)

RECURSIVE SumSize(_)
SumSize(log) ==
    IF log = << >> THEN R(0)
    ELSE RAdd(SumSize(SubSeq(log, 1, Len(log) - 1)), Last(log).size)

RECURSIVE SumNotional(_)
SumNotional(log) ==
    IF log = << >> THEN R(0)
    ELSE RAdd(SumNotional(SubSeq(log, 1, Len(log) - 1)),
              RMul(Last(log).size, Last(log).price))

OnlyBuys(log) == log # << >> /\ \A i \in 1..Len(log) : log[i].action = "BUY"

(***************************************************************************)
(* C1 - Circuit breaker absorption: while circuit_breaker_active is set,   *)
(* every execute_order call, whatever its arguments, raises                *)
(* CircuitBreakerTriggeredError and leaves cash, positions, orders,        *)
(* trades, daily PnL and the breaker flag as they were.                    *)
(***************************************************************************)
C1_BreakerAbsorbs ==
    [][ (circuit_breaker_active /\ call' = "execute_order")
          => (raised' = "CircuitBreakerTriggeredError" /\ Ledger' = Ledger) ]_vars

C1_Witness ==
    /\ circuit_breaker_active
    /\ call = "execute_order"
    /\ raised = "CircuitBreakerTriggeredError"
    /\ trades # << >>

(***************************************************************************)
(* C2 - After any sequence of execute_order and reset_daily_tracking calls *)
(* under any configuration with slippage >= 0 and commission_rate >= 0,    *)
(* cash is never negative and every position has a size above zero.        *)
(***************************************************************************)
C2_CashAndSizesNonNegative ==
    /\ RLe(R(0), cash_balance)
    /\ \A s \in DOMAIN positions : RGt(positions[s].size, R(0))

(***************************************************************************)
(* C3 - An execute_order call that raises leaves cash, positions, trades,  *)
(* daily PnL and the breaker flag exactly as they were before the call.    *)
(***************************************************************************)
C3_FailureLeavesMoneyAlone ==
    [][ (call' = "execute_order" /\ raised' # NoException) => Money' = Money ]_vars

C3_Witness ==
    /\ call = "execute_order"
    /\ raised = "OrderExecutionError"
    /\ Last(orders).status = "failed"
    /\ Last(orders).action = "SELL"
    /\ Last(orders).symbol \in DOMAIN positions
    /\ RLt(positions[Last(orders).symbol].size, Last(orders).size)

(***************************************************************************)
(* C4 - Every execute_order call that gets past the circuit breaker check  *)
(* appends exactly one Order: a rejected one ("failed" in the source) when *)
(* the call fails for any reason, validation included, a filled one when   *)
(* it succeeds.                                                            *)
(***************************************************************************)
C4_EveryCallRecordsAnOrder ==
    [][ (call' = "execute_order" /\ raised' # "CircuitBreakerTriggeredError")
          => /\ OrderAppended
             /\ Last(orders').status =
                  IF raised' = NoException THEN "filled" ELSE "failed" ]_vars

(***************************************************************************)
(* C5 - execute_order reports the failure kind: a BUY whose notional plus  *)
(* commission exceeds cash raises InsufficientFundsError; a SELL with no   *)
(* position or beyond the position's size raises InvalidOrderError, as     *)
(* does every order that fails validation.                                 *)
(***************************************************************************)
C5_FailureKindReported ==
    [][ (call' = "execute_order" /\ raised' \notin {NoException, "CircuitBreakerTriggeredError"})
          => IF orders' # orders /\ Last(orders').action = "BUY"
             THEN raised' = "InsufficientFundsError"
             ELSE raised' = "InvalidOrderError" ]_vars

(***************************************************************************)
(* C6 - In every reachable state, replaying the trade log from             *)
(* initial_capital reproduces the ledger's cash and its positions (symbol, *)
(* size, entry price) exactly.                                             *)
(***************************************************************************)
C6_TradeLogReconstructsLedger ==
    Replay(trades) = [ cash |-> cash_balance, positions |-> positions ]

C6_Witness ==
    /\ Len(trades) = 3
    /\ \E i \in 1..3 : trades[i].action = "SELL"
    /\ positions # << >>
    /\ cash_balance # initial_capital

(***************************************************************************)
(* C7 - For every price map handed to get_account_state, total_value is    *)
(* cash plus size * price summed over every open position, no open         *)
(* position is left out, and total_return_pct is                           *)
(* (total_value / initial_capital - 1) * 100.                              *)
(***************************************************************************)
C7_TotalValueCountsEveryPosition ==
    \A pm \in PriceMaps :
        LET a == GetAccountState(Ledger, pm)
        IN  /\ a.positions = DOMAIN positions
            /\ a.position_value = SumValue(positions, pm, a.positions)
            /\ a.total_value = RAdd(cash_balance, a.position_value)
            /\ a.total_return_pct =
                 RMul(RSub(RDiv(a.total_value, initial_capital), R(1)), R(100))

(***************************************************************************)
(* C8 - Position averaging: BUYs of a symbol starting from no position     *)
(* leave one position whose size is the sum of the bought sizes and whose  *)
(* entry price is sum(n_i * p_i) / sum(n_i) over the executed prices; and  *)
(* every BUY into an existing position yields the size-weighted average of *)
(* the previous entry price and the new executed price (the position held  *)
(* before the BUY is the one the earlier trades replay to).                *)
(***************************************************************************)
C8_PositionAveraging ==
    /\ \A s \in Symbols :
         OnlyBuys(TradesOf(s)) =>
             /\ s \in DOMAIN positions
             /\ positions[s].size = SumSize(TradesOf(s))
             /\ positions[s].entry_price =
                  RDiv(SumNotional(TradesOf(s)), SumSize(TradesOf(s)))
    /\ (trades # << >> /\ Last(trades).action = "BUY") =>
         LET t == Last(trades)
             held == Replay(SubSeq(trades, 1, Len(trades) - 1)).positions
         IN  t.symbol \in DOMAIN held =>
                 LET q == held[t.symbol]
                 IN  /\ positions[t.symbol].size = RAdd(q.size, t.size)
                     /\ positions[t.symbol].entry_price =
                          RDiv(RAdd(RMul(q.size, q.entry_price), RMul(t.size, t.price)),
                               RAdd(q.size, t.size))

C8_Witness ==
    \E s \in Symbols :
        /\ Len(TradesOf(s)) = 2
        /\ OnlyBuys(TradesOf(s))
        /\ TradesOf(s)[1].price # TradesOf(s)[2].price
        /\ TradesOf(s)[1].size # TradesOf(s)[2].size

(***************************************************************************)
(* C9 - Round trip: from a ledger holding only cash, a filled BUY of size  *)
(* n at reference price p followed by a filled SELL of n at p leaves no    *)
(* position and strictly less cash than before the BUY when                *)
(* commission_rate > 0 or slippage > 0, and the same cash when both are 0. *)
(* The ledger before the BUY is the replay of the trade log without its    *)
(* last two entries.                                                       *)
(***************************************************************************)
RoundTripJustDone ==
    /\ Len(orders) >= 2
    /\ LET b == orders[Len(orders) - 1]
           s == orders[Len(orders)]
       IN  /\ b.status = "filled" /\ s.status = "filled"
           /\ b.action = "BUY" /\ s.action = "SELL"
           /\ b.symbol = s.symbol /\ b.size = s.size /\ b.price = s.price
    /\ Replay(SubSeq(trades, 1, Len(trades) - 2)).positions = << >>

C9_RoundTripLosesCosts ==
    RoundTripJustDone =>
        LET before == Replay(SubSeq(trades, 1, Len(trades) - 2)).cash
        IN  /\ positions = << >>
            /\ (RGt(commission_rate, R(0)) \/ RGt(slippage, R(0)))
                 => RLt(cash_balance, before)
            /\ (commission_rate = R(0) /\ slippage = R(0))
                 => cash_balance = before

C9_Witness ==
    /\ RoundTripJustDone
    /\ commission_rate = R(0)
    /\ RGt(slippage, R(0))

(***************************************************************************)
(* C10 - The circuit breaker is a latch: while it is set every operation   *)
(* other than reset_daily_tracking leaves it set and every execute_order   *)
(* is rejected; reset_daily_tracking sets daily PnL to 0 and clears the    *)
(* flag, leaving cash, positions, orders and trades alone; the             *)
(* execute_order that follows is not rejected by the breaker.              *)
(***************************************************************************)
C10_BreakerLatch ==
    [][ /\ (circuit_breaker_active /\ call' # "reset_daily_tracking")
             => (circuit_breaker_active' /\ raised' = "CircuitBreakerTriggeredError")
        /\ call' = "reset_daily_tracking"
             => /\ daily_pnl' = R(0)
                /\ ~circuit_breaker_active'
                /\ << cash_balance, positions, orders, trades >>'
                     = << cash_balance, positions, orders, trades >>
        /\ (call = "reset_daily_tracking" /\ call' = "execute_order")
             => raised' # "CircuitBreakerTriggeredError" ]_vars

\* A BUY, a SELL whose loss alone exceeds the daily limit, and then a third
\* filled order: the breaker tripped, was reset, and execution resumed.
C10_Witness ==
    /\ Len(trades) = 3
    /\ trades[1].action = "BUY" /\ trades[2].action = "SELL"
    /\ trades[1].symbol = trades[2].symbol
    /\ RLt(RSub(RMul(RSub(trades[2].price, trades[1].price), trades[2].size),
                trades[2].commission),
           RNeg(max_daily_loss))
    /\ call = "execute_order"
    /\ raised = NoException

(***************************************************************************)
(* C11 - The daily loss breaker: a filled SELL that brings daily_pnl to    *)
(* -max_daily_loss (max_daily_loss = rate * initial_capital) or below      *)
(* trips the breaker, the value exactly at the limit included.             *)
(***************************************************************************)
SellJustFilled ==
    /\ call = "execute_order"
    /\ raised = NoException
    /\ trades # << >>
    /\ Last(trades).action = "SELL"

C11_ThresholdInclusive ==
    (SellJustFilled /\ RLe(daily_pnl, RNeg(max_daily_loss))) => circuit_breaker_active

(***************************************************************************)
(* C11, amended - a filled SELL trips the breaker exactly when it leaves   *)
(* daily_pnl strictly below -max_daily_loss; at exactly -max_daily_loss    *)
(* the breaker stays clear.                                                *)
(***************************************************************************)
C11_ThresholdStrict ==
    SellJustFilled => (circuit_breaker_active <=> RLt(daily_pnl, RNeg(max_daily_loss)))

C11_Witness ==
    /\ SellJustFilled
    /\ daily_pnl = RNeg(max_daily_loss)
    /\ ~circuit_breaker_active

(***************************************************************************)
(* C12 - Win rate: get_account_state replays the trade log keeping, per    *)
(* symbol, the size-weighted average price of all BUYs so far (a SELL      *)
(* never clears it); each SELL is one closed trade, a win iff its executed *)
(* price > average BUY price * (1 + 2 * commission_rate) for the ledger's  *)
(* configured rate; win_rate = 100 * wins / closed trades, 0 without SELLs.*)
(***************************************************************************)
RECURSIVE ClaimedWins(_, _)
ClaimedWins(log, kappa) ==
    IF log = << >> THEN 0
    ELSE LET front == SubSeq(log, 1, Len(log) - 1)
             t == Last(log)
             buys == SelectSeq(front, LAMBDA b : b.action = "BUY" /\ b.symbol = t.symbol)
         IN  ClaimedWins(front, kappa) +
               IF /\ t.action = "SELL"
                  /\ buys # << >>
                  /\ RGt(t.price, RMul(RDiv(SumNotional(buys), SumSize(buys)),
                                       RAdd(R(1), RMul(R(2), kappa))))
               THEN 1 ELSE 0

ClosedTrades(log) == Len(SelectSeq(log, LAMBDA t : t.action = "SELL"))

C12_WinRateUsesConfiguredCommission ==
    \A pm \in PriceMaps :
        GetAccountState(Ledger, pm).win_rate =
            IF ClosedTrades(trades) = 0 THEN R(0)
            ELSE RMul(RDiv(R(ClaimedWins(trades, commission_rate)),
                           R(ClosedTrades(trades))), R(100))

(***************************************************************************)
(* C13 - Broker isolation.  Inside get_all_multi_asset_decisions a task    *)
(* that ends in failure leaves a None entry and adds one to its own        *)
(* model's error counter only; a task that ends with a bundle leaves that  *)
(* bundle; either way the other models' entries and states are untouched   *)
(* and no ledger changes.  Leaving the collection always records the       *)
(* round.  Over the k rounds recorded so far, a model that failed in all   *)
(* of them has errors = k, decisions_made = 0 and its initial ledger; a    *)
(* model that answered HOLD in all of them has decisions_made = k,         *)
(* trades_executed = 0 and its initial ledger.                             *)
(***************************************************************************)
AlwaysFailed(m) ==
    \A i \in 1..Len(round_results) : round_results[i].decisions[m].num_decisions = 0

AlwaysHeld(m) ==
    \A i \in 1..Len(round_results) : round_results[i].decisions[m].actions = << "HOLD" >>

C13_TaskStep ==
    (pc = "collect" /\ pc' = "collect") =>
        \A m \in Enabled :
            /\ models'[m].exchange = models[m].exchange
            /\ (tasks[m] # "done" /\ tasks'[m] = "done") =>
                   /\ \/ /\ decisions'[m] = None
                         /\ models'[m].errors = models[m].errors + 1
                         /\ models'[m].decisions_made = models[m].decisions_made
                      \/ /\ decisions'[m] \in Bundles
                         /\ models'[m].errors = models[m].errors
                         /\ models'[m].decisions_made = models[m].decisions_made + 1
                   /\ \A q \in Enabled \ {m} :
                         models'[q] = models[q] /\ decisions'[q] = decisions[q]

C13_RoundRecorded ==
    (pc = "collect" /\ pc' # "collect") =>
        /\ Len(round_results') = Len(round_results) + 1
        /\ round_results'[Len(round_results')].round = current_round

C13_OverRounds ==
    pc \notin {"created", "collect"} =>
        \A m \in Enabled :
            /\ AlwaysFailed(m) =>
                   /\ models[m].errors = Len(round_results)
                   /\ models[m].decisions_made = 0
                   /\ models[m].exchange = NewLedger(capital_per_model)
            /\ AlwaysHeld(m) =>
                   /\ models[m].decisions_made = Len(round_results)
                   /\ models[m].trades_executed = 0
                   /\ models[m].exchange = NewLedger(capital_per_model)

C13_BrokerIsolation ==
    /\ []C13_OverRounds
    /\ [][C13_TaskStep /\ C13_RoundRecorded]_vars

C13_Witness ==
    /\ pc = "stopped"
    /\ Len(round_results) = 2
    /\ \E m \in Enabled, q \in Enabled :
         /\ AlwaysFailed(m)
         /\ models[m].errors = 2
         /\ models[q].trades_executed >= 1
         /\ models[q].exchange.positions # << >>

(***************************************************************************)
(* C14 - The collection is bounded: whenever gather is waiting on a        *)
(* model's adapter call that will never be answered, a deadline that ends  *)
(* that wait is pending, so that the collection returns with that model's  *)
(* entry None and the round goes on to execution and logging.              *)
(***************************************************************************)
C14_CollectBounded ==
    \A m \in {"deepseek", "openai"} :
        (m \in Enabled /\ pc = "collect" /\ tasks[m] = "hung") => ENABLED CallTimesOut(m)

(***************************************************************************)
(* C15 - The leaderboard of every recorded round lists every model exactly *)
(* once, in descending return_pct order, and models with equal return_pct  *)
(* in the order of their ids, whatever their priorities.                   *)
(***************************************************************************)
IdRank == [ m \in {"anthropic", "deepseek", "groq", "openai"} |->
              CASE m = "anthropic" -> 1 [] m = "deepseek" -> 2
                [] m = "groq" -> 3 [] m = "openai" -> 4 ]

C15_LeaderboardOrder ==
    \A i \in 1..Len(round_results) :
        LET lb == round_results[i].leaderboard
        IN  /\ Len(lb) = Len(model_order)
            /\ { lb[j].provider : j \in 1..Len(lb) } = Enabled
            /\ \A j \in 1..Len(lb), k \in 1..Len(lb) :
                  j < k =>
                    \/ RGt(lb[j].return_pct, lb[k].return_pct)
                    \/ /\ lb[j].return_pct = lb[k].return_pct
                       /\ IdRank[lb[j].provider] < IdRank[lb[k].provider]

(***************************************************************************)
(* C16 - A first run_competition(max_rounds = N), N >= 1, never takes      *)
(* current_round beyond N, and when it returns with no duration given and  *)
(* no shutdown signal received current_round = N, rounds that failed       *)
(* included.  Once shutdown_requested is set no round is started any more, *)
(* and the loop, when next at its test, is left.                           *)
(***************************************************************************)
FirstRunWithMaxRounds == runs_started = 1 /\ max_rounds >= 1

C16_RoundsBounded ==
    FirstRunWithMaxRounds =>
        /\ current_round <= max_rounds
        /\ (pc = "stopped" /\ session_end = "none" /\ ~shutdown_requested)
              => current_round = max_rounds

C16_ShutdownStep ==
    shutdown_requested =>
        /\ current_round' = current_round
        /\ (pc = "loop" /\ pc' # "loop") => pc' = "final"

C16_RunTerminates ==
    /\ []C16_RoundsBounded
    /\ [][C16_ShutdownStep]_vars

C16_Witness ==
    /\ FirstRunWithMaxRounds
    /\ pc = "stopped"
    /\ session_end = "none"
    /\ ~shutdown_requested
    /\ current_round = 2
    /\ Len(round_results) = 1

(***************************************************************************)
(* C17 - When run_competition has returned, _cleanup has run exactly once, *)
(* the results have been exported, and both the model adapters and the     *)
(* market-data exchange facade have been closed.                           *)
(***************************************************************************)
C17_CleanupReleasesEverything ==
    pc = "stopped" =>
        /\ cleanup_runs = 1
        /\ exported
        /\ ~clients_open
        /\ ~data_fetcher_open

(***************************************************************************)
(* C18 - With shutdown_requested set, the inter-round sleep does not go on *)
(* waiting: no further part of the interval elapses inside it.             *)
(***************************************************************************)
C18_SleepWakesOnShutdown ==
    [][ (pc = "sleep" /\ shutdown_requested)
          => ~(pc' = "sleep" /\ sleep_left' < sleep_left) ]_vars

(***************************************************************************)
(* C19 - Once shutdown_requested is set, no exchange fetch and no model    *)
(* decision call is started: the fetches of the remaining symbols and the  *)
(* fan-out to the models do not begin.                                     *)
(***************************************************************************)
C19_NothingStartsAfterShutdown ==
    [][ shutdown_requested
          => /\ ~(pc = "fetch" /\ pc' = "fetching")
             /\ ~(pc # "collect" /\ pc' = "collect") ]_vars

(***************************************************************************)
(* C20 - Lifecycle created -> ready -> running -> stopped, stopped being   *)
(* terminal: once run_competition has returned, nothing starts a session   *)
(* or a round again, and current_round, the ledgers and round_results stay *)
(* as they are.                                                            *)
(***************************************************************************)
C20_StoppedIsTerminal ==
    [][ pc = "stopped"
          => /\ pc' = "stopped"
             /\ current_round' = current_round
             /\ round_results' = round_results
             /\ models' = models ]_vars

(***************************************************************************)
(* C21 - current_round never decreases and goes up by exactly one when     *)
(* _run_trading_round is entered and at no other step; round_results only  *)
(* grows by one record appended at its end, the records already there      *)
(* staying as they are; the round numbers of the records are strictly      *)
(* increasing (so no round has two records) and none is ahead of           *)
(* current_round.                                                          *)
(***************************************************************************)
RoundEntered == pc = "loop" /\ pc' = "fetch"

C21_RoundStep ==
    /\ current_round' = IF RoundEntered THEN current_round + 1 ELSE current_round
    /\ \/ round_results' = round_results
       \/ /\ Len(round_results') = Len(round_results) + 1
          /\ SubSeq(round_results', 1, Len(round_results)) = round_results

C21_LogIncreasing ==
    /\ \A i \in 1..Len(round_results), j \in 1..Len(round_results) :
          i < j => round_results[i].round < round_results[j].round
    /\ \A i \in 1..Len(round_results) :
          round_results[i].round >= 1 /\ round_results[i].round <= current_round

C21_RoundMonotoneLogAppendOnly ==
    /\ []C21_LogIncreasing
    /\ [][C21_RoundStep]_vars

C21_Witness ==
    /\ runs_started = 2
    /\ current_round = 2
    /\ Len(round_results) = 2
    /\ round_results[2].round = 2

(***************************************************************************)
(* C22 - In a round, the fetch of a symbol either adds that symbol to the  *)
(* snapshot or (failing) leaves the snapshot as it was, without the        *)
(* symbol; neither touches a model, a ledger or round_results.  After the  *)
(* last symbol: with an empty snapshot the round is given up (no model is  *)
(* asked, nothing is recorded) and control is back in run_competition,     *)
(* which goes on to its sleep or its loop test; otherwise the models are   *)
(* asked, and the record the round appends carries exactly the snapshot.   *)
(***************************************************************************)
FetchReturned == pc = "fetching" /\ pc' # "fetching"

FetchFailed == FetchReturned /\ round_prices' = round_prices

LastSymbol == sym_idx = Len(symbols)

C22_FetchFrame ==
    pc \in {"fetch", "fetching"} => (models' = models /\ round_results' = round_results)

C22_FetchStep ==
    FetchReturned =>
        /\ DOMAIN round_prices' \subseteq DOMAIN round_prices \cup {symbols[sym_idx]}
        /\ \A s \in DOMAIN round_prices : s \in DOMAIN round_prices'
                                            /\ round_prices'[s] = round_prices[s]
        /\ FetchFailed => symbols[sym_idx] \notin DOMAIN round_prices'
        /\ ~LastSymbol => pc' = "fetch"
        /\ (LastSymbol /\ round_prices' = << >>) =>
              /\ pc' = "display"
              /\ tasks' = tasks
              /\ decisions' = decisions
        /\ (LastSymbol /\ round_prices' # << >>) =>
              /\ pc' = "collect"
              /\ \A m \in DOMAIN tasks' : tasks'[m] = "awaiting"

C22_AfterRound ==
    pc = "display" => pc' \in {"display", "sleep", "loop"}

C22_RecordStep ==
    (pc = "collect" /\ pc' = "display") =>
        /\ round_prices # << >>
        /\ Len(round_results') = Len(round_results) + 1
        /\ round_results'[Len(round_results')].prices = round_prices

C22_FetchFailures ==
    [][C22_FetchFrame /\ C22_FetchStep /\ C22_AfterRound /\ C22_RecordStep]_vars

\* A run whose first round lost every symbol and whose second round lost
\* one of the two and was recorded with the other.
C22_Witness ==
    /\ runs_started = 1
    /\ current_round = 2
    /\ Len(round_results) = 1
    /\ round_results[1].round = 2
    /\ DOMAIN round_results[1].prices = {"ETH/USDT"}
    /\ round_results[1].decisions["deepseek"].num_decisions = 1

(***************************************************************************)
(* C23 - When execute_multi_asset_decisions applies the collected bundles: *)
(* a model with no bundle is left as it is, whatever the others do; for a  *)
(* model with a bundle, every decision that reaches its ledger (priced     *)
(* symbol, BUY or SELL, SELL only with a position) ends either as one      *)
(* executed trade or as one recorded error, none is dropped after an       *)
(* earlier rejection; the orders the ledger gains are in bundle order, and *)
(* each is sized from the ledger as the orders before it left it: a BUY    *)
(* from the cash then at hand, a SELL from the position held.              *)
(***************************************************************************)
QMul(a, b) == << a[1] * b[1], a[2] * b[2] >>

QAdd(a, b) == << a[1] * b[2] + b[1] * a[2], a[2] * b[2] >>

QSub(a, b) == << a[1] * b[2] - b[1] * a[2], a[2] * b[2] >>

QEq(a, b) == a[1] * b[2] = b[1] * a[2]

ExecuteStep == pc = "collect" /\ pc' = "ready"

ReachesLedger(m, i) ==
    LET d == decisions[m][i]
    IN  /\ d.symbol \in DOMAIN round_prices
        /\ d.action \in {"BUY", "SELL"}
        /\ d.action = "SELL" => d.symbol \in DOMAIN models[m].exchange.positions

\* The decision of m's bundle an order of m's ledger came from (symbols are
\* unique within a bundle).
DecisionOf(m, order) ==
    CHOOSE i \in 1..Len(decisions[m]) : decisions[m][i].symbol = order.symbol

\* order is what the decision it came from asks for, given the cash at hand
\* when it was applied.
SizedFrom(m, order, cash) ==
    LET d == decisions[m][DecisionOf(m, order)]
        ps == IF RLe(d.position_size, Rat(5, 100)) THEN d.position_size ELSE Rat(5, 100)
    IN  /\ order.action = d.action
        /\ order.price = round_prices[d.symbol]
        /\ IF d.action = "BUY"
           THEN QEq(QMul(order.size, order.price), QMul(cash, ps))
           ELSE QEq(order.size, QMul(models[m].exchange.positions[d.symbol].size,
                                     d.position_size))

CashAfter(cash, trade) ==
    IF trade.action = "BUY"
    THEN QSub(cash, trade.total_cost)
    ELSE QAdd(cash, QSub(QMul(trade.size, trade.price), trade.commission))

C23_ModelStep(m) ==
    LET before == models[m]
        after == models'[m]
        n == Len(before.exchange.orders)
        k == Len(after.exchange.orders) - n
        submitted == { i \in 1..Len(decisions[m]) : ReachesLedger(m, i) }
    IN  IF decisions[m] = None
        THEN after = before
        ELSE /\ k = after.trades_executed - before.trades_executed
             /\ k >= 0
             /\ after.errors >= before.errors
             /\ k + (after.errors - before.errors) = Cardinality(submitted)
             /\ SubSeq(after.exchange.orders, 1, n) = before.exchange.orders
             /\ Len(after.exchange.trades) = Len(before.exchange.trades) + k
             /\ \A a \in 1..k :
                   /\ \E i \in submitted :
                         decisions[m][i].symbol = after.exchange.orders[n + a].symbol
                   /\ \A b \in 1..k :
                         a < b => DecisionOf(m, after.exchange.orders[n + a])
                                    < DecisionOf(m, after.exchange.orders[n + b])
             /\ k >= 1 => SizedFrom(m, after.exchange.orders[n + 1],
                                    before.exchange.cash_balance)
             /\ k >= 2 => SizedFrom(m, after.exchange.orders[n + 2],
                              CashAfter(before.exchange.cash_balance,
                                        after.exchange.trades[Len(before.exchange.trades) + 1]))

C23_ExecuteStep ==
    ExecuteStep => \A m \in {"deepseek", "openai"} : C23_ModelStep(m)

C23_BundlesAppliedInOrder == [][C23_ExecuteStep]_vars

\* One model's first decision was rejected and its second one executed;
\* the other model bought twice, the second time with less cash.
C23_Witness ==
    /\ pc = "ready"
    /\ models # << >>
    /\ \E m \in Enabled, q \in Enabled :
         /\ m # q
         /\ models[m].errors = 1
         /\ models[m].trades_executed = 1
         /\ DOMAIN models[m].exchange.positions = {"ETH/USDT"}
         /\ models[q].errors = 0
         /\ models[q].trades_executed = 2
         /\ Len(models[q].exchange.orders) = 2
         /\ RLt(models[q].exchange.orders[2].size, models[q].exchange.orders[1].size)

(***************************************************************************)
(* C24 - Whenever bundles are about to be applied, each BUY decision on a  *)
(* priced symbol meets its ledger with                                     *)
(*   size = cash * min(position_size, 0.05) / current price,               *)
(* cash being the ledger's cash once the earlier decisions of the bundle   *)
(* have been applied, so that size * price is at most 5% of that cash.     *)
(* When cash * min(position_size, 0.05) is below min_order_size_usd        *)
(* (position_size = 0 included) the ledger raises InvalidOrderError: the   *)
(* model records exactly one error and no trade, and cash and positions    *)
(* stay as they were.                                                      *)
(***************************************************************************)
C24_BuyAt(m, i) ==
    LET d == decisions[m][i]
        before == ExecuteDecisionList([ state |-> models[m], success_count |-> 0 ],
                                      SubSeq(decisions[m], 1, i - 1), round_prices,
                                      commission_rate, slippage)
        after == ExecuteDecision(before, d, round_prices, commission_rate, slippage)
        cash == before.state.exchange.cash_balance
        fraction == IF RLe(d.position_size, Rat(5, 100)) THEN d.position_size ELSE Rat(5, 100)
        notional == RMul(cash, fraction)
        price == round_prices[d.symbol]
    IN  IF RLt(notional, min_order_size_usd)
        THEN /\ after.state.errors = before.state.errors + 1
             /\ after.state.error_message = "InvalidOrderError"
             /\ after.state.trades_executed = before.state.trades_executed
             /\ after.success_count = before.success_count
             /\ after.state.exchange.cash_balance = cash
             /\ after.state.exchange.positions = before.state.exchange.positions
        ELSE /\ Len(after.state.exchange.orders) = Len(before.state.exchange.orders) + 1
             /\ LET order == Last(after.state.exchange.orders)
                IN  /\ order.action = "BUY"
                    /\ order.symbol = d.symbol
                    /\ order.price = price
                    /\ order.size = RDiv(notional, price)
                    /\ RLe(RMul(order.size, price), RMul(cash, Rat(5, 100)))

C24_BuySizedAndCapped ==
    (pc = "collect" /\ \A m \in Enabled : tasks[m] = "done") =>
        \A m \in Enabled :
            decisions[m] # None =>
                \A i \in 1..Len(decisions[m]) :
                    (decisions[m][i].action = "BUY"
                       /\ decisions[m][i].symbol \in DOMAIN round_prices) => C24_BuyAt(m, i)

\* One model's BUY of 2.5% of its cash of 220 came to 5.5 and was rejected;
\* the other's BUY of 50% was cut to 5% of 220.
C24_Witness ==
    /\ pc = "ready"
    /\ models # << >>
    /\ \E m \in Enabled, q \in Enabled :
         /\ models[m].errors = 1
         /\ models[m].error_message = "InvalidOrderError"
         /\ models[m].trades_executed = 0
         /\ models[m].exchange.orders = << >>
         /\ models[m].exchange.cash_balance = R(220)
         /\ Len(models[q].exchange.orders) >= 1
         /\ models[q].exchange.orders[1].action = "BUY"
         /\ RMul(models[q].exchange.orders[1].size, models[q].exchange.orders[1].price) = R(11)

\* C25: under any interleaving of concurrent acquire calls, no window of
\* time_window seconds holds more than max_calls recorded acquisitions: of
\* the timestamps acquire has recorded, at most max_calls lie in
\* [t, t + time_window) for the t of any one of them.
C25_WindowHoldsAtMostMaxCalls ==
    \A i \in 1..Len(acquired) :
        Cardinality({ j \in 1..Len(acquired) :
                        /\ acquired[j] >= acquired[i]
                        /\ acquired[j] - acquired[i] < rate_limiter.time_window })
            <= rate_limiter.max_calls

\* The series a caller has just received from fetch_ohlcv or inside the
\* result of fetch_multi_timeframe.
SeriesReturned ==
    IF fetch.raised # "none" THEN { }
    ELSE IF fetch.op = "fetch_ohlcv" THEN { fetch.returned }
    ELSE IF fetch.op = "fetch_multi_timeframe"
    THEN { fetch.returned[tf] : tf \in DOMAIN fetch.returned }
    ELSE { }

\* C26: every series returned by fetch_ohlcv or inside a result of
\* fetch_multi_timeframe, fetched or served from the cache, has strictly
\* increasing timestamps and at most lookback candles.
C26_SeriesStrictlyIncreasing ==
    \A s \in SeriesReturned :
        /\ \A i \in 2..Len(s) : s[i].timestamp > s[i - 1].timestamp
        /\ Len(s) <= lookback

\* C27: fetch_ohlcv fails in three kinds its caller can tell apart: an
\* unsupported timeframe as DataFetchError, an exchange that is rate
\* limited, unreachable or unavailable as DataFetchError (transient), no
\* rows or rows out of order as InvalidDataError (data corruption), the last
\* never as a fetch error.
C27_FailureKinds ==
    (fetch.op = "fetch_ohlcv" /\ fetch.raised # "none") =>
        IF fetch.timeframes[1] \notin timeframe_map
        THEN fetch.raised = "DataFetchError"
        ELSE /\ fetch.replies[1].error \in ExchangeUnavailable
                   => fetch.raised = "DataFetchError"
             /\ fetch.replies[1].error = "none"
                   => fetch.raised = "InvalidDataError"

\* A fetch_ohlcv call with caching enabled has just been made.
CachedFetchStep ==
    /\ fetch'.op = "fetch_ohlcv"
    /\ fetch'.use_cache
    /\ fetch' # fetch \/ acquired' # acquired \/ cache' # cache

RequestedKey == << "BTC/USDT", fetch'.timeframes[1], lookback >>

\* Before the call the cache held an entry for the requested key, younger
\* than the TTL.
FreshEntry ==
    /\ RequestedKey \in DOMAIN cache.cache
    /\ clock - cache.cache[RequestedKey][1] < cache.ttl

\* The cache without the entry of the requested key.
WithoutRequested ==
    [ cache EXCEPT !.cache = [ k \in DOMAIN cache.cache \ { RequestedKey } |->
                                 cache.cache[k] ] ]

\* C28 as stated, its last part: a fetch_ohlcv call with caching enabled
\* that fails leaves the cache map unchanged.
C28_FailedFetchLeavesCache ==
    [][ (CachedFetchStep /\ fetch'.raised # "none") => cache' = cache ]_vars

\* C28: with caching enabled, fetch_ohlcv returns the stored series without
\* acquiring a rate-limit token or calling the exchange iff the cache holds
\* an entry for the same (symbol, timeframe, lookback) with age < TTL; an
\* entry with age >= TTL is evicted by the lookup and never returned; a
\* call that fails stores nothing: it leaves the cache as it was but for
\* the expired entry of the requested key, which the lookup has evicted.
C28_CacheDiscipline ==
    [][ CachedFetchStep =>
          /\ FreshEntry <=> /\ fetch'.raised = "none"
                            /\ fetch'.acquired = 0
                            /\ fetch'.exchange_calls = 0
          /\ FreshEntry => /\ fetch'.returned = cache.cache[RequestedKey][2]
                           /\ cache' = cache
                           /\ rate_limiter' = rate_limiter
          /\ (~ FreshEntry /\ fetch'.raised = "none") =>
                 /\ fetch'.exchange_calls = 1
                 /\ fetch'.returned = Candles(fetch'.replies[1], lookback).candles
                 /\ cache'.cache[RequestedKey] = << clock, fetch'.returned >>
          /\ (~ FreshEntry /\ RequestedKey \in DOMAIN cache.cache) =>
                 \/ RequestedKey \notin DOMAIN cache'.cache
                 \/ cache'.cache[RequestedKey][1] = clock
          /\ fetch'.raised # "none" =>
                 cache' = IF RequestedKey \in DOMAIN cache.cache
                          THEN WithoutRequested ELSE cache
      ]_vars

\* A series stored a second ago is served from the cache: no token, no
\* call of the exchange.
C28_Witness ==
    /\ fetch.op = "fetch_ohlcv"
    /\ fetch.use_cache
    /\ fetch.raised = "none"
    /\ fetch.acquired = 0
    /\ fetch.exchange_calls = 0
    /\ LET key == << "BTC/USDT", fetch.timeframes[1], lookback >>
       IN  /\ key \in DOMAIN cache.cache
           /\ clock - cache.cache[key][1] = 1
           /\ fetch.returned = cache.cache[key][2]

\* C29: fetch_multi_timeframe is all-or-nothing: it returns a map only when
\* the fetch of every requested timeframe succeeded, and then the map has
\* exactly one series per requested timeframe; if an inner fetch fails the
\* caller receives one error, that of a failed inner fetch, and no map.
C29_MultiAllOrNothing ==
    fetch.op = "fetch_multi_timeframe" =>
        LET requested == { fetch.timeframes[i] : i \in 1..Len(fetch.timeframes) }
            failed == { i \in 1..Len(fetch.timeframes) : fetch.inner[i] # "none" }
        IN  IF failed = { }
            THEN /\ fetch.raised = "none"
                 /\ DOMAIN fetch.returned = requested
            ELSE /\ fetch.raised \in { fetch.inner[i] : i \in failed }
                 /\ fetch.returned = << >>

\* Two timeframes were requested, the fetch of the first succeeded and that
\* of the second failed: the caller has an error and no map.
C29_Witness ==
    /\ fetch.op = "fetch_multi_timeframe"
    /\ Len(fetch.timeframes) = 2
    /\ fetch.inner[1] = "none"
    /\ fetch.inner[2] # "none"
    /\ fetch.raised # "none"

\* C30: get_trading_decision makes at most max_retries provider calls; a
\* timeout or rate-limit failure of the request on attempt k that is not
\* the last attempt is followed by a wait of retry_delay * 2^k and another
\* attempt; any other failure ends the call after that attempt; a
\* successful attempt returns at once; the call fails if no attempt
\* succeeds.
C30_RetryPolicy ==
    [][ (request.pc = "calling" /\ request'.pc # "calling") =>
          /\ request'.api_calls = request.api_calls + 1
          /\ request'.api_calls <= request.max_retries
          /\ request'.outcome = "ok" => request'.pc = "returned"
          /\ (/\ request'.outcome \in { "timeout", "rate_limit" }
              /\ request.attempt < request.max_retries - 1) =>
                 /\ request'.pc = "backoff"
                 /\ request'.slept =
                        Append(request.slept, request.retry_delay * 2 ^ request.attempt)
          /\ (/\ request'.outcome \in { "timeout", "rate_limit" }
              /\ request.attempt = request.max_retries - 1) =>
                 request'.pc = "failed"
          /\ request'.outcome \in { "invalid_response", "error" } =>
                 request'.pc = "failed"
      ]_vars

\* C31: in a round, a model whose provider call fails with a transient kind
\* (here: its timeout fires) is retried by its adapter, and its entry in the
\* collected decisions becomes null only after the configured number of
\* attempts has been made.
C31_NullOnlyAfterRetries ==
    [][ \A m \in DOMAIN tasks :
          (/\ pc = "collect"
           /\ tasks[m] \in { "awaiting", "hung" }
           /\ tasks'[m] = "done"
           /\ decisions'[m] = None
           /\ models'[m].error_message = New("LLMTimeoutError", 1, { "model" }))
          => provider_calls[m] >= default_max_retries
      ]_vars

\* Two decisions of the response carry the same symbol.
RepeatsSymbol(response) ==
    \E i, j \in 1..Len(response) :
        /\ i # j
        /\ response[i].symbol # NoSymbol
        /\ response[i].symbol = response[j].symbol

\* C32: a multi-asset response in which two decisions carry the same symbol
\* is rejected as a whole: the model's entry is null, its errors rise by
\* exactly 1, decisions_made does not rise, and executing the round's
\* entries leaves its ledger and its trade count as they were; every bundle
\* that leaves the validator has pairwise distinct symbols.
C32_DuplicateSymbolsRejected ==
    [][ /\ (pc = "ready" /\ pc' = "collect") =>
             \A m \in DOMAIN models :
                 /\ RepeatsSymbol(responses'[m]) =>
                        /\ decisions'[m] = None
                        /\ models'[m].errors = models[m].errors + 1
                        /\ models'[m].decisions_made = models[m].decisions_made
                        /\ models'[m].exchange = models[m].exchange
                 /\ decisions'[m] # None => ~ RepeatsSymbol(decisions'[m])
        /\ (pc = "collect" /\ pc' = "ready") =>
             \A m \in DOMAIN models :
                 decisions[m] = None =>
                     /\ models'[m].exchange = models[m].exchange
                     /\ models'[m].trades_executed = models[m].trades_executed
      ]_vars

\* A response repeating a symbol has been rejected while the other model's
\* bundle was accepted.
C32_Witness ==
    /\ pc = "collect"
    /\ \E m, o \in DOMAIN models :
         /\ RepeatsSymbol(responses[m])
         /\ decisions[m] = None
         /\ models[m].errors = 1
         /\ models[m].decisions_made = 0
         /\ decisions[o] # None
         /\ Len(decisions[o]) = 2

\* The calls under which the task of model m has succeeded / has failed.
Succeeded(m) == { c \in 1..Len(collects) : collects[c].tasks[m] = "ok" }
Failed(m) == { c \in 1..Len(collects) : collects[c].tasks[m] \notin { "ok", "awaiting" } }

\* C33: under any interleaving of concurrently running get_all_decisions
\* calls on one model set no counter update is lost: each model's
\* decisions_made is the number of its tasks that succeeded and its errors
\* the number that failed, at every point and so when all calls have
\* returned.
C33_NoLostCounterUpdate ==
    \A m \in DOMAIN models :
        /\ models[m].decisions_made = Cardinality(Succeeded(m))
        /\ models[m].errors = Cardinality(Failed(m))

\* All the concurrent calls have returned; one model succeeded under every
\* call, the other both succeeded and failed.
C33_Witness ==
    /\ Len(collects) = MaxCollects
    /\ \A c \in 1..Len(collects) : collects[c].returned
    /\ \E m, o \in DOMAIN models :
         /\ models[m].decisions_made = MaxCollects
         /\ models[o].errors >= 1
         /\ models[o].decisions_made >= 1

\* C34: in a round the market fetches of all configured symbols are in
\* flight together: while the fetch of a symbol is in flight no fetch of
\* another symbol has completed yet (the symbols before symbols[sym_idx] are
\* the ones whose fetch has returned or raised).
C34_FetchesInFlightTogether ==
    pc = "fetching" => \A i \in 1..Len(symbols) : i >= sym_idx

\* C35: the limiter's list of recorded call timestamps never holds more
\* than max_calls entries, whatever the sequence or interleaving of acquire
\* calls, acquisitions that had to wait included.
C35_CallsListBounded ==
    Len(rate_limiter.calls) <= rate_limiter.max_calls

\* Rationals compared and combined without reducing them.
SameValue(a, b) == a[1] * b[2] = b[1] * a[2]
Plus(a, b) == << a[1] * b[2] + b[1] * a[2], a[2] * b[2] >>
Minus(a, b) == << a[1] * b[2] - b[1] * a[2], a[2] * b[2] >>
Times(a, b) == << a[1] * b[1], a[2] * b[2] >>

\* The execute_order call of this step appended an order with this status.
OrderAppendedAs(status) ==
    /\ call' = "execute_order"
    /\ Len(orders') = Len(orders) + 1
    /\ orders'[Len(orders')].status = status

\* C36: a filled SELL credits cash by notional - commission, reduces the
\* position, records the trade, adds (executed price - entry price) * size -
\* commission to daily_pnl, and sets the breaker in the same step when
\* daily_pnl lands below -max_daily_loss; every other execute_order call (a
\* BUY, a rejected order) leaves daily_pnl and the breaker as they were.
C36_LosingSellFillsAndTrips ==
    [][ call' = "execute_order" =>
          IF OrderAppendedAs("filled") /\ orders'[Len(orders')].action = "SELL"
          THEN /\ raised' = NoException
               /\ Len(trades') = Len(trades) + 1
               /\ LET t == trades'[Len(trades')]
                      held == positions[t.symbol]
                      pnl == Minus(Times(Minus(t.price, held.entry_price), t.size),
                                   t.commission)
                  IN  /\ t.action = "SELL"
                      /\ t.order_id = orders'[Len(orders')].order_id
                      /\ SameValue(daily_pnl', Plus(daily_pnl, pnl))
                      /\ SameValue(cash_balance',
                                   Plus(cash_balance,
                                        Minus(Times(t.price, t.size), t.commission)))
                      /\ IF held.size = t.size
                         THEN t.symbol \notin DOMAIN positions'
                         ELSE /\ t.symbol \in DOMAIN positions'
                              /\ SameValue(positions'[t.symbol].size,
                                           Minus(held.size, t.size))
                      /\ circuit_breaker_active' =
                           (circuit_breaker_active \/ RLt(daily_pnl', RNeg(max_daily_loss)))
          ELSE /\ daily_pnl' = daily_pnl
               /\ circuit_breaker_active' = circuit_breaker_active
      ]_vars

\* A SELL has just been filled at a loss that took daily_pnl below the
\* limit: the breaker is set, the trade is in the log and the position gone.
C36_Witness ==
    /\ call = "execute_order"
    /\ raised = NoException
    /\ orders # << >> /\ trades # << >>
    /\ Last(orders).status = "filled"
    /\ Last(orders).action = "SELL"
    /\ Last(trades).order_id = Last(orders).order_id
    /\ RLt(daily_pnl, RNeg(max_daily_loss))
    /\ circuit_breaker_active
    /\ Last(orders).symbol \notin DOMAIN positions

\* C37: the return_pct and account_value the leaderboard of a round record
\* reports for a model are the total return and total value of that model's
\* ledger valued at the round's prices: cash plus size * price over all its
\* open positions (here: whenever the round's snapshot prices all of them).
C37_LeaderboardValuesLedgerAtRoundPrices ==
    (pc = "display" /\ round_results # << >>
                    /\ Last(round_results).round = current_round) =>
        LET rr == Last(round_results)
        IN  \A i \in 1..Len(rr.leaderboard) :
                LET e == rr.leaderboard[i]
                    L == models[e.provider].exchange
                    total == RAdd(L.cash_balance,
                                  SumValue(L.positions, rr.prices, DOMAIN L.positions))
                IN  DOMAIN L.positions \subseteq DOMAIN rr.prices =>
                        /\ e.account_value = total
                        /\ e.return_pct =
                             RMul(RSub(RDiv(total, L.initial_capital), R(1)), R(100))

\* C38: whenever a ledger holds a position in a symbol, its breaker is not
\* tripped and the symbol has a positive price in the round's snapshot, a
\* SELL decision with position_size = 1 applied by
\* execute_multi_asset_decisions closes the position: the order is filled
\* and the symbol leaves the position map.
C38_FullSellClosesPosition ==
    [][ (pc = "collect" /\ pc' = "ready") =>
          \A m \in DOMAIN models :
              \A s \in DOMAIN models[m].exchange.positions :
                  (/\ ~ models[m].exchange.circuit_breaker_active
                   /\ s \in DOMAIN round_prices
                   /\ RGt(round_prices[s], R(0))
                   /\ decisions[m] = << Decision(s, "SELL", R(1)) >>)
                  => /\ s \notin DOMAIN models'[m].exchange.positions
                     /\ Len(models'[m].exchange.orders) = Len(models[m].exchange.orders) + 1
                     /\ models'[m].exchange.orders[Len(models'[m].exchange.orders)].status
                          = "filled"
      ]_vars

\* C39: every provider API call made on behalf of a model in the round path
\* has first passed the adapter's rate limit and been recorded in its
\* sliding window: the _call_api calls made for a model under the current
\* gather are no more than the calls its adapter has recorded.
C39_ProviderCallsRecorded ==
    \A m \in DOMAIN provider_calls :
        provider_calls[m] <= Len(models[m].rate_limit_calls)

\* The positions of the filled orders in a ledger's order sequence.
FilledOrders(L) == { i \in 1..Len(L.orders) : L.orders[i].status = "filled" }

C40_CountsAgree ==
    \A m \in DOMAIN models :
        LET L == models[m].exchange
        IN  /\ models[m].trades_executed = Len(L.trades)
            /\ Len(L.trades) = Cardinality(FilledOrders(L))
            /\ \A i \in 1..Len(L.orders) : L.orders[i].status \in { "filled", "failed" }

C40_FilledOrdersKept ==
    \A m \in DOMAIN models :
        m \in DOMAIN models' =>
            \A i \in FilledOrders(models[m].exchange) :
                /\ i <= Len(models'[m].exchange.orders)
                /\ models'[m].exchange.orders[i] = models[m].exchange.orders[i]

\* C40: for every model driven by execute_multi_asset_decisions, in every
\* reachable state trades_executed equals the length of the ledger's trade
\* log, which equals the number of orders with status filled; every order
\* in the order sequence is filled or failed, none pending; and no step
\* changes or removes a filled order.
C40_TradeCountsAndOrders ==
    /\ []C40_CountsAgree
    /\ [][C40_FilledOrdersKept]_vars

\* A model with two filled orders, a rejected request on its error count,
\* and a SELL among its trades.
C40_Witness ==
    \E m \in DOMAIN models :
        /\ models[m].trades_executed = 2
        /\ Cardinality(FilledOrders(models[m].exchange)) = 2
        /\ models[m].errors >= 1
        /\ \E i \in 1..Len(models[m].exchange.trades) :
               models[m].exchange.trades[i].action = "SELL"

====
